---- MODULE Spec2Model ----
(***************************************************************************)
(* Model of the FlightSimOnline relay server (src/server/routes.ts): the   *)
(* lobby registry, the HTTP lobby endpoints and the socket handlers        *)
(* (connection, updateState, disconnect).                                  *)
(*                                                                         *)
(* JavaScript strings are sequences of one-character strings, so that the  *)
(* slug, trim and number formatting of the code are computed, not assumed. *)
(* A JavaScript Map is a function from its keys to its values; the arrays  *)
(* built from Map.values() are the sets of their elements (keys are        *)
(* unique, and the iteration order is not modelled).                       *)
(***************************************************************************)
EXTENDS Integers, Sequences, FiniteSets, TLC

\* ------------------------------------------------------------------ bounds
MaxSockets == 3      \* SpecRelay: connections accepted in one run
MaxGuests == 1       \* Spec: connections accepted in one run
MaxLobbies == 3      \* POST /api/lobbies is not taken beyond this registry size
MaxTime == 1         \* Date.now() ranges over 0..MaxTime
MaxDraws == 2        \* values of Math.random() one createLobby call consumes
RandomDen == 2       \* Math.random() ranges over k / RandomDen, k \in RandomSamples
MaxOpens == 3        \* sockets one client opens with io()
MaxFrames == 2       \* frames of one flight
MaxTicks == 4        \* SpecOnline: frames of one flight
MaxInFlight == 2     \* SpecSession: messages in flight to one client

\* --------------------------------------------------------------- strings
UpperCase == <<"A","B","C","D","E","F","G","H","I","J","K","L","M",
               "N","O","P","Q","R","S","T","U","V","W","X","Y","Z">>
LowerCase == <<"a","b","c","d","e","f","g","h","i","j","k","l","m",
               "n","o","p","q","r","s","t","u","v","w","x","y","z">>
Digits == <<"0","1","2","3","4","5","6","7","8","9">>
WhiteSpace == {" ", "\t", "\n"}

Range(f) == {f[i] : i \in DOMAIN f}

UpperChars == Range(UpperCase)
SlugChars == Range(LowerCase) \cup Range(Digits)
LowerOf == [c \in UpperChars |-> LowerCase[CHOOSE i \in DOMAIN UpperCase : UpperCase[i] = c]]

\* String.prototype.toLowerCase, on one character and on a string
lowerChar(c) == IF c \in UpperChars THEN LowerOf[c] ELSE c

toLowerCase(s) == [i \in DOMAIN s |-> lowerChar(s[i])]

isSlugChar(c) == c \in SlugChars

\* s.replace(/[^a-z0-9]+/g, "-"): every maximal run of other characters becomes one "-"
RECURSIVE replaceNonAlnum(_)
replaceNonAlnum(s) ==
  IF s = <<>> THEN <<>>
  ELSE IF isSlugChar(Head(s)) THEN <<Head(s)>> \o replaceNonAlnum(Tail(s))
  ELSE IF Len(s) > 1 /\ ~isSlugChar(s[2]) THEN replaceNonAlnum(Tail(s))
  ELSE <<"-">> \o replaceNonAlnum(Tail(s))

\* s.replace(/^-+|-+$/g, ""): leading and trailing dashes are dropped
RECURSIVE stripLeading(_, _)
stripLeading(s, drop) ==
  IF s # <<>> /\ Head(s) \in drop THEN stripLeading(Tail(s), drop) ELSE s

RECURSIVE stripTrailing(_, _)
stripTrailing(s, drop) ==
  IF s # <<>> /\ s[Len(s)] \in drop
  THEN stripTrailing(SubSeq(s, 1, Len(s) - 1), drop) ELSE s

stripDashes(s) == stripTrailing(stripLeading(s, {"-"}), {"-"})

\* String.prototype.trim
trim(s) == stripTrailing(stripLeading(s, WhiteSpace), WhiteSpace)

\* `${n}` for a non-negative integer
RECURSIVE numberToString(_)
numberToString(n) ==
  IF n < 10 THEN <<Digits[n + 1]>>
  ELSE numberToString(n \div 10) \o <<Digits[(n % 10) + 1]>>

\* ------------------------------------------------------------- constants
DEFAULT_LOBBY_ID == <<"o","p","e","n","-","s","k","i","e","s">>
DEFAULT_LOBBY_NAME == <<"O","p","e","n"," ","S","k","i","e","s">>
LobbyWord == <<"l","o","b","b","y">>
LobbyPrefix == <<"L","o","b","b","y"," ">>
SuffixSpan == 9000
SuffixBase == 1000

\* the id socket.io assigns to the n-th connection: unique, never reused
socketIdOf(n) == <<"s">> \o numberToString(n)

\* ------------------------------------------------------------ JavaScript Map
EmptyMap == [k \in {} |-> k]
MapSet(m, k, v) == [x \in (DOMAIN m) \cup {k} |-> IF x = k THEN v ELSE m[x]]
MapDelete(m, k) == [x \in (DOMAIN m) \ {k} |-> m[x]]

\* ------------------------------------------------------------------ state
VARIABLES
  lobbies,     \* const lobbies = new Map<string, Lobby>(): lobby id -> Lobby object
  heap,        \* the Lobby objects: reference -> [id, name, createdAt, players]
  sockets,     \* connected sockets: socket.id -> the `lobby` its handlers closed over
  nextSocket,  \* number of connections accepted so far
  now,         \* Date.now()
  emitted,     \* the messages the last handler emitted: [to, ev, data]
  response,    \* the HTTP response of the last handler, when it was a request
  last,        \* the handler that ran last and its inputs
  store,       \* the client's useFlightSim store
  ioSockets,   \* the sockets the client opened with io(): number -> [query, active, connected]
  effect,      \* App's connection effect: the dependencies it last ran with, its cleanup
  aircraft,    \* the player's Aircraft component: its source, frames run, refs, extended store
  peers        \* the clients at the other end of the connections: socket id ->
               \* [playerId, otherPlayers, inbox], the messages in flight to each

vars == <<lobbies, heap, sockets, nextSocket, now, emitted, response, last,
          store, ioSockets, effect, aircraft, peers>>

\* the state of the server, the state of one client
serverVars == <<lobbies, heap, sockets, nextSocket, now, emitted, response>>
clientVars == <<store, ioSockets, effect, aircraft>>

\* A reference to a new Lobby object for `id`: distinct from every live object
newRef(h, id) ==
  <<id, CHOOSE k \in 0..Cardinality(DOMAIN h) :
          /\ <<id, k>> \notin DOMAIN h
          /\ \A j \in 0..(k - 1) : <<id, j>> \in DOMAIN h>>

\* Objects no reference leads to are dropped (garbage collection)
collect(reg, socks, h) ==
  [r \in {x \in DOMAIN h : \/ x \in Range(reg)
                            \/ \E s \in DOMAIN socks : socks[s].lobby = x} |-> h[r]]

\* ---------------------------------------------------------------- registry
\* ensureLobby without the lobbies.has test: a new Lobby is set every time
ensureLobbyAlwaysSets(reg, h, id, name, t) ==
  LET r == newRef(h, id) IN
  [lobbies |-> MapSet(reg, id, r),
   heap |-> MapSet(h, r, [id |-> id, name |-> name, createdAt |-> t,
                          players |-> EmptyMap]),
   lobby |-> r]

\* ensureLobby(id, name): the registry, the heap and the Lobby returned
ensureLobby(reg, h, id, name, t) ==
  IF id \notin DOMAIN reg
  THEN LET r == newRef(h, id) IN
       [lobbies |-> MapSet(reg, id, r),
        heap |-> MapSet(h, r, [id |-> id, name |-> name, createdAt |-> t,
                               players |-> EmptyMap]),
        lobby |-> r]
  ELSE [lobbies |-> reg, heap |-> h, lobby |-> reg[id]]

\* Math.floor(Math.random() * 9000 + 1000) for Math.random() = k / RandomDen
randomSuffix(k) == ((k * SuffixSpan) \div RandomDen) + SuffixBase

baseIdOf(name) == stripDashes(replaceNonAlnum(toLowerCase(name)))

candidateId(name, k) ==
  (IF baseIdOf(name) # <<>> THEN baseIdOf(name) ELSE LobbyWord)
    \o <<"-">> \o numberToString(randomSuffix(k))

\* the while loop of createLobby over the successive values of Math.random():
\* the index of the first draw whose id is free, 0 when every draw collides
RECURSIVE firstFree(_, _, _, _)
firstFree(reg, name, draws, i) ==
  IF i > Len(draws) THEN 0
  ELSE IF candidateId(name, draws[i]) \in DOMAIN reg
       THEN firstFree(reg, name, draws, i + 1)
       ELSE i

\* createLobby without the retry loop: the first id drawn is used
createLobbyFirstDraw(reg, h, name, t, draws) ==
  LET finalId == candidateId(name, draws[1])
      r == newRef(h, finalId)
  IN [lobbies |-> MapSet(reg, finalId, r),
      heap |-> MapSet(h, r, [id |-> finalId, name |-> name, createdAt |-> t,
                             players |-> EmptyMap]),
      lobby |-> r]

\* createLobby(name), for the values Math.random() returns during the call
createLobby(reg, h, name, t, draws) ==
  LET finalId == candidateId(name, draws[firstFree(reg, name, draws, 1)])
      r == newRef(h, finalId)
  IN [lobbies |-> MapSet(reg, finalId, r),
      heap |-> MapSet(h, r, [id |-> finalId, name |-> name, createdAt |-> t,
                             players |-> EmptyMap]),
      lobby |-> r]

\* playerCount taken from the connected sockets of the whole server
getLobbySummaryCountsAllSockets(lobby) ==
  [id |-> lobby.id, name |-> lobby.name, createdAt |-> lobby.createdAt,
   playerCount |-> Cardinality(DOMAIN sockets)]

getLobbySummary(lobby) ==
  [id |-> lobby.id, name |-> lobby.name, createdAt |-> lobby.createdAt,
   playerCount |-> Cardinality(DOMAIN lobby.players)]

\* cleanupLobby without the test for the default lobby
cleanupLobbyAlsoDefault(reg, h, lobbyId) ==
  IF lobbyId \notin DOMAIN reg THEN reg
  ELSE IF Cardinality(DOMAIN h[reg[lobbyId]].players) = 0
       THEN MapDelete(reg, lobbyId)
       ELSE reg

\* cleanupLobby without the test for remaining players
cleanupLobbyIgnoresPlayers(reg, h, lobbyId) ==
  IF lobbyId \notin DOMAIN reg THEN reg
  ELSE IF h[reg[lobbyId]].id = DEFAULT_LOBBY_ID THEN reg
  ELSE MapDelete(reg, lobbyId)

\* cleanupLobby testing players.length, which a Map does not have
cleanupLobbyNeverDeletes(reg, h, lobbyId) == reg

\* cleanupLobby sweeping every empty lobby but the default one
cleanupLobbySweeps(reg, h, lobbyId) ==
  [id \in {x \in DOMAIN reg : \/ h[reg[x]].id = DEFAULT_LOBBY_ID
                              \/ Cardinality(DOMAIN h[reg[x]].players) # 0} |-> reg[id]]

\* cleanupLobby(lobbyId): the registry it leaves
cleanupLobby(reg, h, lobbyId) ==
  IF lobbyId \notin DOMAIN reg THEN reg
  ELSE IF h[reg[lobbyId]].id = DEFAULT_LOBBY_ID THEN reg
  ELSE IF Cardinality(DOMAIN h[reg[lobbyId]].players) = 0
       THEN MapDelete(reg, lobbyId)
       ELSE reg

\* ------------------------------------------------------------------ inputs
Vec(x, y, z) == [x |-> x, y |-> y, z |-> z]

\* a new player registered on the ground
newPlayerOnGround(sid) ==
  [id |-> sid, position |-> Vec(0, 0, 0), rotation |-> Vec(0, 0, 0),
   velocity |-> Vec(0, 0, 0), fuel |-> 100, throttle |-> 0,
   aircraftType |-> "cessna"]

\* a new player registered with the empty id a client sends before its init
newPlayerNoId(sid) ==
  [id |-> <<>>, position |-> Vec(0, 50, 0), rotation |-> Vec(0, 0, 0),
   velocity |-> Vec(0, 0, 0), fuel |-> 100, throttle |-> 0,
   aircraftType |-> "cessna"]

\* the PlayerState registered for a new connection
newPlayer(sid) ==
  [id |-> sid, position |-> Vec(0, 50, 0), rotation |-> Vec(0, 0, 0),
   velocity |-> Vec(0, 0, 0), fuel |-> 100, throttle |-> 0,
   aircraftType |-> "cessna"]

\* the spread without the re-stamp: the id the client sent is kept
stampKeepsClientId(state, sid) ==
  IF "id" \in DOMAIN state THEN state
  ELSE [f \in (DOMAIN state) \cup {"id"} |-> IF f = "id" THEN sid ELSE state[f]]

\* { ...state, id: socket.id }
stamp(state, sid) ==
  [f \in (DOMAIN state) \cup {"id"} |-> IF f = "id" THEN sid ELSE state[f]]

FirstSocketId == socketIdOf(1)
SecondSocketId == socketIdOf(2)

UnlistedLobbyId == <<"m","y","-","l","-","1","0","0","0">>

StringQuery(v) == [isString |-> TRUE, value |-> v]
NoQuery == [isString |-> FALSE, value |-> <<>>]

\* socket.handshake.query.lobbyId: absent, or a string the client chose: empty,
\* a listed lobby, a lobby nobody created
Queries ==
  {NoQuery} \cup {StringQuery(v) : v \in {<<>>, UnlistedLobbyId} \cup DOMAIN lobbies}

\* ... or the socket id of a peer, which init and playerJoined told it
RelayQueries ==
  {NoQuery} \cup
  {StringQuery(v) : v \in {<<>>, UnlistedLobbyId} \cup ({FirstSocketId} \cap DOMAIN sockets)}

\* updateState payloads: a full PlayerState with any id field, and a partial object
FullState(i) ==
  [id |-> i, position |-> Vec(10, 60, -5), rotation |-> Vec(0, 1, 0),
   velocity |-> Vec(0, 0, -30), fuel |-> 90, throttle |-> 1,
   aircraftType |-> "fighter"]

RelayPayloads == {FullState(i) : i \in {FirstSocketId, SecondSocketId}}

Payloads == {FullState(<<>>), [fuel |-> 5]}

\* req.body?.name of POST /api/lobbies
BodyNames ==
  {[isString |-> TRUE, value |-> <<" ","M","y"," ","L","\t">>],
   [isString |-> TRUE, value |-> <<" ","!"," ">>],
   [isString |-> TRUE, value |-> <<" ","\t">>],
   [isString |-> TRUE, value |-> <<>>],
   [isString |-> FALSE, value |-> <<>>]}

RandomSamples == {0, 1}
DrawSeqs == UNION {[1..n -> RandomSamples] : n \in 1..MaxDraws}

NoResponse == [status |-> 0]

\* ------------------------------------------------------------ client store
\* numbers of the store are fixed-point: thousandths for throttle, angles and
\* coefficients, hundredths of a world unit for speeds, millionths for fuel,
\* hundred-thousandths of a world unit for positions, so that a velocity times
\* a frame time in milliseconds is a position exactly
Milli == 1000
Centi == 100
Micro == 1000000
Fine == 100000

\* null / undefined, and a string value
null == [isString |-> FALSE, value |-> <<>>]
Str(v) == [isString |-> TRUE, value |-> v]

\* JavaScript truthiness of a string-or-null value
truthy(x) == x.isString /\ x.value # <<>>

\* socket: null
NoSocket == 0

\* the initial state of create<FlightSimState>()
InitialStore ==
  [playerId |-> null,
   position |-> Vec(0, 50 * Fine, 0),
   rotation |-> Vec(0, 0, 0),
   velocity |-> Vec(0, 0, 0),
   fuel |-> 100 * Micro,
   throttle |-> 0,
   speed |-> 0,
   altitude |-> 50 * Fine,
   aircraftType |-> "cessna",
   socket |-> NoSocket,
   otherPlayers |-> EmptyMap,
   isConnected |-> FALSE,
   lobbyId |-> null,
   lobbyName |-> null,
   hasJoinedLobby |-> FALSE]

\* socket.disconnect(): the socket is closed for good and, when it was
\* connected, its "disconnect" handler sets isConnected to false
closeSocket(c, n) ==
  [store |-> IF c.ioSockets[n].connected
             THEN [c.store EXCEPT !.isConnected = FALSE]
             ELSE c.store,
   ioSockets |-> [c.ioSockets EXCEPT ![n].active = FALSE, ![n].connected = FALSE]]

\* disconnectMultiplayer(), on the store and the sockets
disconnectMultiplayer(c) ==
  IF c.store.socket # NoSocket
  THEN LET d == closeSocket(c, c.store.socket) IN
       [store |-> [d.store EXCEPT !.socket = NoSocket,
                                  !.isConnected = FALSE,
                                  !.otherPlayers = EmptyMap,
                                  !.playerId = null],
        ioSockets |-> d.ioSockets]
  ELSE c

\* io(config.socketUrl, { query: { lobbyId } }): one more socket, connecting
io(socks, lobbyId) ==
  MapSet(socks, Cardinality(DOMAIN socks) + 1,
         [query |-> lobbyId, active |-> TRUE, connected |-> FALSE])

\* connectMultiplayer that opens the new socket next to the existing one
connectMultiplayerKeepsExisting(c, lobbyIdParam) ==
  LET lobbyId == IF truthy(lobbyIdParam) THEN lobbyIdParam ELSE c.store.lobbyId IN
  IF ~truthy(lobbyId) THEN c
  ELSE LET socks == io(c.ioSockets, lobbyId.value) IN
       [store |-> [c.store EXCEPT !.socket = Cardinality(DOMAIN socks)],
        ioSockets |-> socks]

\* connectMultiplayer(lobbyIdParam)
connectMultiplayer(c, lobbyIdParam) ==
  LET lobbyId == IF truthy(lobbyIdParam) THEN lobbyIdParam ELSE c.store.lobbyId IN
  IF ~truthy(lobbyId) THEN c
  ELSE LET d == IF c.store.socket # NoSocket THEN closeSocket(c, c.store.socket) ELSE c
           socks == io(d.ioSockets, lobbyId.value)
       IN [store |-> [d.store EXCEPT !.socket = Cardinality(DOMAIN socks)],
           ioSockets |-> socks]

\* joinLobby(lobbyId, lobbyName)
joinLobby(c, lobbyId, lobbyName) ==
  IF c.store.lobbyId = Str(lobbyId) /\ c.store.hasJoinedLobby THEN c
  ELSE LET d == disconnectMultiplayer(c) IN
       [store |-> [d.store EXCEPT !.lobbyId = Str(lobbyId),
                                  !.lobbyName = Str(lobbyName),
                                  !.hasJoinedLobby = TRUE,
                                  !.playerId = null,
                                  !.otherPlayers = EmptyMap,
                                  !.isConnected = FALSE],
        ioSockets |-> d.ioSockets]

\* leaveLobby()
leaveLobby(c) ==
  LET d == disconnectMultiplayer(c) IN
  [store |-> [d.store EXCEPT !.lobbyId = null,
                             !.lobbyName = null,
                             !.hasJoinedLobby = FALSE,
                             !.playerId = null,
                             !.otherPlayers = EmptyMap,
                             !.isConnected = FALSE],
   ioSockets |-> d.ioSockets]

\* the "init" handler: playerId, and the players of the lobby but oneself
initOtherPlayers(data) ==
  [k \in {p.id : p \in data.players} \ {data.playerId} |->
     CHOOSE p \in data.players : p.id = k]

addOtherPlayer(st, player) ==
  [st EXCEPT !.otherPlayers = MapSet(st.otherPlayers, player.id, player)]

\* (a handler that stores every update, announced or not)
updateOtherPlayerCreates(st, player) ==
  [st EXCEPT !.otherPlayers = MapSet(st.otherPlayers, player.id, player)]

\* (a handler that merges the received fields into the cached copy)
updateOtherPlayerMerges(st, player) ==
  IF player.id \in DOMAIN st.otherPlayers
  THEN [st EXCEPT !.otherPlayers =
          MapSet(st.otherPlayers, player.id,
                 [k \in DOMAIN st.otherPlayers[player.id] \cup DOMAIN player |->
                    IF k \in DOMAIN player THEN player[k]
                    ELSE st.otherPlayers[player.id][k]])]
  ELSE st

updateOtherPlayer(st, player) ==
  IF player.id \in DOMAIN st.otherPlayers
  THEN [st EXCEPT !.otherPlayers = MapSet(st.otherPlayers, player.id, player)]
  ELSE st

removeOtherPlayer(st, playerId) ==
  [st EXCEPT !.otherPlayers = MapDelete(st.otherPlayers, playerId)]

\* the lobbies the lobby screen offers, by id, with their names
LobbyChoices == {DEFAULT_LOBBY_ID, UnlistedLobbyId}
lobbyNameOf(id) == IF id = DEFAULT_LOBBY_ID THEN DEFAULT_LOBBY_NAME ELSE LobbyPrefix \o <<"2">>

\* lobbyIdParam of connectMultiplayer: undefined, "" or a lobby id
ConnectParams == {null, Str(<<>>), Str(DEFAULT_LOBBY_ID)}

\* what the server sends this client: its id, the players of its lobby
OwnSocketId == socketIdOf(3)
\* (a relayed state holds the fields its sender put in it: lines 139-147 of
\* routes.ts add the id to whatever updateState carried)
PeerStates == {newPlayer(FirstSocketId), FullState(FirstSocketId),
               stamp([fuel |-> 5], FirstSocketId)}
InitPayloads ==
  {[playerId |-> OwnSocketId, players |-> ps] :
     ps \in {{newPlayer(OwnSocketId)},
             {newPlayer(OwnSocketId), newPlayer(FirstSocketId)}}}

\* ------------------------------------------------------------------ flight
\* delta, the frame time in seconds, is counted in milliseconds
Second == 1000

Min(a, b) == IF a < b THEN a ELSE b
Max(a, b) == IF a > b THEN a ELSE b

\* const x = value is written CHOOSE r \in {... x ... : x \in {value}} : TRUE:
\* the value is computed once, where a LET definition is computed anew at
\* each of its uses while TLC evaluates ENABLED

\* the product of two fixed-point numbers, b being counted in `unit`s, rounded
\* toward zero
scale(a, b, unit) ==
  CHOOSE r \in {IF p >= 0 THEN p \div unit ELSE -((-p) \div unit)
                : p \in {a * b}} : TRUE

\* Math.sqrt on non-negative integers, rounded down
RECURSIVE newton(_, _)
newton(n, x) ==
  (CHOOSE r \in {IF y >= x THEN x ELSE newton(n, y) : y \in {(x + n \div x) \div 2}} : TRUE)

sqrt(n) == (CHOOSE r \in {IF m = 0 THEN 0 ELSE newton(m, m) : m \in {n}} : TRUE)

\* Math.PI, and Math.cos / Math.sin of an angle in thousandths of a radian:
\* the angle is brought into [-PI, PI], folded into [-PI/2, PI/2] and the
\* Taylor polynomial is taken there
Pi == 3142
angle(a) == ((a + Pi) % (2 * Pi)) - Pi
square(a) == scale(a, a, Milli)
cube(a) == scale(square(a), a, Milli)
sinSmall(a) == a - cube(a) \div 6 + scale(cube(a), square(a), Milli) \div 120
cosSmall(a) == Milli - square(a) \div 2 + scale(square(a), square(a), Milli) \div 24

sin(a) ==
  (CHOOSE r \in {
    IF w > Pi \div 2 THEN sinSmall(Pi - w)
    ELSE IF w < -(Pi \div 2) THEN sinSmall(-Pi - w)
    ELSE sinSmall(w) : w \in {angle(a)}} : TRUE)

cos(a) ==
  (CHOOSE r \in {
    IF w > Pi \div 2 THEN -cosSmall(Pi - w)
    ELSE IF w < -(Pi \div 2) THEN -cosSmall(Pi + w)
    ELSE cosSmall(w) : w \in {angle(a)}} : TRUE)

\* new THREE.Vector3(0, 0, -1).applyEuler(new THREE.Euler(pitch, yaw, roll, 'XYZ')):
\* the roll turns about the vector itself, the yaw then the pitch tilt it
forward(pitch, yaw) ==
  Vec(-sin(yaw), scale(sin(pitch), cos(yaw), Milli), -scale(cos(pitch), cos(yaw), Milli))

\* Math.max(-limit, Math.min(limit, a))
clamp(a, limit) == Max(-limit, Min(limit, a))

AircraftTypes ==
  {"cessna", "cargo", "fighter", "helicopter", "glider", "bomber", "stunt"}

\* coefficients, rates and turn speeds in thousandths, speeds in hundredths
AIRCRAFT_PHYSICS ==
  [cessna |->
     [liftCoefficient |-> 150, dragCoefficient |-> 20, pitchSpeed |-> 1500,
      rollSpeed |-> 2000, yawSpeed |-> 1000, throttleChangeRate |-> 500,
      maxSpeed |-> 80 * Centi, minFlightSpeed |-> 15 * Centi,
      fuelConsumptionRate |-> 8],
   cargo |->
     [liftCoefficient |-> 120, dragCoefficient |-> 30, pitchSpeed |-> 800,
      rollSpeed |-> 1000, yawSpeed |-> 600, throttleChangeRate |-> 300,
      maxSpeed |-> 60 * Centi, minFlightSpeed |-> 25 * Centi,
      fuelConsumptionRate |-> 15],
   fighter |->
     [liftCoefficient |-> 180, dragCoefficient |-> 15, pitchSpeed |-> 2500,
      rollSpeed |-> 3500, yawSpeed |-> 1800, throttleChangeRate |-> 800,
      maxSpeed |-> 150 * Centi, minFlightSpeed |-> 20 * Centi,
      fuelConsumptionRate |-> 20],
   helicopter |->
     [liftCoefficient |-> 250, dragCoefficient |-> 25, pitchSpeed |-> 2000,
      rollSpeed |-> 2500, yawSpeed |-> 2200, throttleChangeRate |-> 600,
      maxSpeed |-> 90 * Centi, minFlightSpeed |-> 0,
      fuelConsumptionRate |-> 12],
   glider |->
     [liftCoefficient |-> 220, dragCoefficient |-> 10, pitchSpeed |-> 1200,
      rollSpeed |-> 1800, yawSpeed |-> 800, throttleChangeRate |-> 200,
      maxSpeed |-> 70 * Centi, minFlightSpeed |-> 10 * Centi,
      fuelConsumptionRate |-> 1],
   bomber |->
     [liftCoefficient |-> 140, dragCoefficient |-> 35, pitchSpeed |-> 600,
      rollSpeed |-> 800, yawSpeed |-> 500, throttleChangeRate |-> 250,
      maxSpeed |-> 55 * Centi, minFlightSpeed |-> 30 * Centi,
      fuelConsumptionRate |-> 18],
   stunt |->
     [liftCoefficient |-> 200, dragCoefficient |-> 18, pitchSpeed |-> 3000,
      rollSpeed |-> 4000, yawSpeed |-> 2500, throttleChangeRate |-> 700,
      maxSpeed |-> 120 * Centi, minFlightSpeed |-> 18 * Centi,
      fuelConsumptionRate |-> 16]]

GRAVITY == 980
TERRAIN_HEIGHT == 0
WORLD_SIZE == 2000 * Fine
HALF_WORLD == WORLD_SIZE \div 2

\* the store's setters for throttle and fuel
setThrottle(st, throttle) == [st EXCEPT !.throttle = Max(0, Min(Milli, throttle))]

consumeFuelUnclamped(st, amount) == [st EXCEPT !.fuel = st.fuel - amount]

consumeFuel(st, amount) == [st EXCEPT !.fuel = Max(0, st.fuel - amount)]

refuel(st, amount) == [st EXCEPT !.fuel = Min(100 * Micro, st.fuel + amount)]

\* updateMultiplayerState(): the PlayerState the store emits as "updateState",
\* none when it has no socket or the socket is not connected
updateMultiplayerState(st, socks) ==
  IF st.socket # NoSocket /\ socks[st.socket].connected
  THEN {[id |-> IF truthy(st.playerId) THEN st.playerId.value ELSE <<>>,
         position |-> st.position,
         rotation |-> st.rotation,
         velocity |-> st.velocity,
         fuel |-> st.fuel,
         throttle |-> st.throttle,
         aircraftType |-> st.aircraftType]}
  ELSE {}

\* Math.sqrt(velocity.x * velocity.x + velocity.y * velocity.y + velocity.z * velocity.z)
currentSpeedOf(velocity) ==
  sqrt(velocity.x * velocity.x + velocity.y * velocity.y + velocity.z * velocity.z)

\* physics.throttleChangeRate * delta and the like: a rate over a frame time
over(rate, delta) == scale(rate, delta, Second)

\* newThrottle after the throttle keys, throttleDown overriding throttleUp
keyedThrottle(physics, throttle, controls, delta) ==
  IF controls.throttleDown
  THEN Max(0, throttle - over(physics.throttleChangeRate, delta))
  ELSE IF controls.throttleUp
  THEN Min(Milli, throttle + over(physics.throttleChangeRate, delta))
  ELSE throttle

\* lift = physics.liftCoefficient * currentSpeed * Math.cos(pitch)
liftOf(liftCoefficient, currentSpeed, pitch) ==
  scale(scale(liftCoefficient, currentSpeed, Milli), cos(pitch), Milli)

\* (lift applied at every speed)
wingLiftAtAnySpeed(physics, currentSpeed, pitch) ==
  liftOf(physics.liftCoefficient, currentSpeed, pitch)

\* let lift = 0; if (currentSpeed > physics.minFlightSpeed) lift = ...
wingLift(physics, currentSpeed, pitch) ==
  IF currentSpeed > physics.minFlightSpeed
  THEN liftOf(physics.liftCoefficient, currentSpeed, pitch) ELSE 0

\* drag = physics.dragCoefficient * currentSpeed * currentSpeed
dragOf(dragCoefficient, currentSpeed) ==
  scale(dragCoefficient, scale(currentSpeed, currentSpeed, Centi), Centi)

\* dragFactor = Math.max(0, 1 - drag * delta)
dragFactor(drag, delta) == Max(0, Milli - over(drag, delta))

\* forward.multiplyScalar(thrust * delta)
multiplyScalar(v, thrust, delta) ==
  (CHOOSE r \in {
    Vec(over(scale(f.x, thrust, Milli), delta),
        over(scale(f.y, thrust, Milli), delta),
        over(scale(f.z, thrust, Milli), delta)) : f \in {v}} : TRUE)

\* newVelocity: thrust, lift and gravity applied, then the drag factor
newVelocity(velocity, thrustForce, lift, drag, delta) ==
  (CHOOSE r \in {
    Vec(scale(velocity.x + thrustForce.x, factor, Milli),
        scale(velocity.y + thrustForce.y + over(lift - GRAVITY, delta), factor, Milli),
        scale(velocity.z + thrustForce.z, factor, Milli)) : factor \in {dragFactor(drag, delta)}} : TRUE)

newPositionIgnoresVelocity(storePosition, velocity, delta) == storePosition

\* newPosition = storePosition + newVelocity * delta
newPosition(storePosition, velocity, delta) ==
  Vec(storePosition.x + velocity.x * delta,
      storePosition.y + velocity.y * delta,
      storePosition.z + velocity.z * delta)

terrainCollisionKeepsVelocity(position, velocity, currentSpeed) ==
  IF position.y < TERRAIN_HEIGHT + 2 * Fine
  THEN [position |-> [position EXCEPT !.y = TERRAIN_HEIGHT + 2 * Fine],
        velocity |-> velocity]
  ELSE [position |-> position, velocity |-> velocity]

\* terrain collision of the fixed-wing integration: the position is lifted to
\* the clearance, a descent is stopped, a slow aircraft loses half its
\* horizontal velocity
terrainCollision(position, velocity, currentSpeed) ==
  IF position.y < TERRAIN_HEIGHT + 2 * Fine
  THEN [position |-> [position EXCEPT !.y = TERRAIN_HEIGHT + 2 * Fine],
        velocity |->
          Vec(IF currentSpeed < 5 * Centi THEN scale(velocity.x, 1, 2) ELSE velocity.x,
              Max(0, velocity.y),
              IF currentSpeed < 5 * Centi THEN scale(velocity.z, 1, 2) ELSE velocity.z)]
  ELSE [position |-> position, velocity |-> velocity]

\* ground contact of the helicopter block
groundContact(position, velocity) ==
  IF position.y < TERRAIN_HEIGHT + 1 * Fine
  THEN [position |-> [position EXCEPT !.y = TERRAIN_HEIGHT + 1 * Fine],
        velocity |-> [velocity EXCEPT !.y = Max(0, scale(velocity.y, 3, 10))]]
  ELSE [position |-> position, velocity |-> velocity]

\* world wrapping of one coordinate
wrapWorld(a) ==
  LET b == IF a > HALF_WORLD THEN a - WORLD_SIZE ELSE a IN
  IF b < -HALF_WORLD THEN b + WORLD_SIZE ELSE b

\* (a send on every frame)
sendDueEveryFrame(since, delta) == TRUE

\* the send of a frame, throttled to one per 33 ms: `since` is now minus
\* lastMultiplayerUpdate.current at the previous frame, counted up to 34
sendDue(since, delta) == since + delta > 33

\* the useFrame callback of Aircraft.tsx for the player's aircraft, the model
\* loaded.  controls is getKeys(): the key map of App has no forward, backward,
\* left, right, collective, cyclic or tail rotor key, so the branches on them
\* (lines 293-306 and 411-441) never run; changeView is not pressed
useFrame(st, socks, since, controls, mouseDelta, delta) ==
  LET physics == AIRCRAFT_PHYSICS[st.aircraftType]
      fuel == st.fuel
      throttle == st.throttle
      velocity == st.velocity
      \* mouse look
      pitchLooked == IF fuel > 0 THEN st.rotation.x - mouseDelta.y ELSE st.rotation.x
      yawLooked == IF fuel > 0 THEN st.rotation.y + mouseDelta.x ELSE st.rotation.y
      \* throttle control
      keyed == keyedThrottle(physics, throttle, controls, delta)
      s1 == IF controls.throttleUp \/ controls.throttleDown
            THEN setThrottle(st, keyed) ELSE st
      \* control, fuel consumption, or the decay without fuel
      yaw == IF fuel > 0
             THEN yawLooked
                  - (IF controls.yawLeft THEN over(physics.yawSpeed, delta) ELSE 0)
                  + (IF controls.yawRight THEN over(physics.yawSpeed, delta) ELSE 0)
             ELSE yawLooked
      newThrottle == IF fuel > 0 THEN keyed ELSE Max(0, keyed - over(100, delta))
      s2 == IF fuel > 0
            THEN IF newThrottle > 0
                 THEN consumeFuel(s1, over(physics.fuelConsumptionRate * newThrottle, delta))
                 ELSE s1
            ELSE setThrottle(s1, newThrottle)
      pitch == clamp(pitchLooked, scale(Pi, 2, 5))
      roll == clamp(st.rotation.z, scale(Pi, 2, 3))
      thrust == scale(newThrottle, physics.maxSpeed, Milli)
      due == sendDue(since, delta)
  IN
  \* the constants of the frame, bound from the last line upward
  CHOOSE r \in {
  CHOOSE r \in {
  CHOOSE r \in {
  CHOOSE r \in {
  CHOOSE r \in {
  CHOOSE r \in {
  CHOOSE r \in {
    [store |-> committed,
     integrated |-> integrated.y,
     lift |-> lifted,
     sent |-> IF due THEN updateMultiplayerState(committed, socks) ELSE {},
     since |-> IF due THEN 0 ELSE since + delta]
  : committed \in {
      [(IF integrated.y < TERRAIN_HEIGHT + 2 * Fine
           /\ currentSpeed < 10 * Centi /\ fuel < 100 * Micro
        THEN refuel(s2, 20 * over(Micro, delta)) ELSE s2)
         EXCEPT !.position = landed.position,
                !.rotation = Vec(pitch, yaw, roll),
                !.velocity = landed.velocity,
                !.speed = currentSpeed,
                !.altitude = landed.position.y]}} : TRUE
  : landed \in {terrainCollision(integrated, flown, currentSpeed)}} : TRUE
  : integrated \in {newPosition(st.position, flown, delta)}} : TRUE
  : flown \in {
      newVelocity(velocity, thrustForce, lifted,
                  dragOf(physics.dragCoefficient, currentSpeed), delta)}} : TRUE
  : lifted \in {wingLift(physics, currentSpeed, pitch)}} : TRUE
  : thrustForce \in {multiplyScalar(forward(pitch, yaw), thrust, delta)}} : TRUE
  : currentSpeed \in {currentSpeedOf(velocity)}} : TRUE

\* the fields of the store that part_003 reads and writes beyond those of
\* useFlightSim.tsx, as a new store holds them
InitialExtended ==
  [flapsPosition |-> 0,
   airbrakeDeployed |-> FALSE,
   trimSettings |-> [pitch |-> 0, roll |-> 0, yaw |-> 0],
   autoLevelEnabled |-> FALSE,
   controlAuthority |-> Milli,
   stallWarning |-> FALSE,
   collectivePosition |-> 0,
   rotorRPM |-> 100 * Milli,
   torque |-> 0,
   verticalSpeed |-> 0,
   inGroundEffect |-> FALSE]

\* setCollective(newCollective)
setCollective(x, collective) == [x EXCEPT !.collectivePosition = collective]

\* control authority from the speed
authorityOf(physics, currentSpeed) ==
  LET normalizedSpeed == scale(currentSpeed, Milli, physics.maxSpeed) IN
  IF 2 * currentSpeed < physics.minFlightSpeed THEN 200
  ELSE IF currentSpeed < physics.minFlightSpeed
  THEN 200 + scale(scale(currentSpeed, Milli, physics.minFlightSpeed), 400, Milli)
  ELSE IF normalizedSpeed < 800 THEN 600 + scale(normalizedSpeed, 400, Milli)
  ELSE Max(300, Milli - scale(normalizedSpeed - 800, 1500, Milli))

\* isStalling: aoa = Math.acos(forward . velocityDir) exceeds criticalAoA
\* exactly when the cosine forward . velocity / currentSpeed is below that of
\* criticalAoA; aoa is 0 at a speed of 5 or less
isStallingOf(physics, fwd, velocity, currentSpeed) ==
  /\ currentSpeed > 5 * Centi
  /\ fwd.x * velocity.x + fwd.y * velocity.y + fwd.z * velocity.z
       < cos(260) * currentSpeed
  /\ currentSpeed > physics.minFlightSpeed

\* the helicopter block of part_003 (lines 552-679), run after the fixed-wing
\* part of the same frame has committed: s is the store and x the extended
\* fields at that point, st the store the component rendered with
helicopterBlock(st, s, x, controls, delta) ==
  LET physics == AIRCRAFT_PHYSICS[st.aircraftType]
      fuel == st.fuel
      velocity == st.velocity
      heliSpeed == currentSpeedOf(velocity)
      horizontalSpeed == sqrt(velocity.x * velocity.x + velocity.z * velocity.z)
      \* collective
      newCollective ==
        IF controls.throttleDown THEN Max(0, x.collectivePosition - over(600, delta))
        ELSE IF controls.throttleUp THEN Min(Milli, x.collectivePosition + over(600, delta))
        ELSE x.collectivePosition
      x1 == IF controls.throttleUp \/ controls.throttleDown
            THEN setCollective(x, newCollective) ELSE x
      effectiveCollective == Min(Milli, newCollective + (IF controls.boost THEN 200 ELSE 0))
      \* rotor RPM and torque
      targetRPM == 100 * Milli - effectiveCollective * 8
      newRPM == x.rotorRPM + over((targetRPM - x.rotorRPM) * 3, delta)
      newTorque == effectiveCollective * 85 + scale(heliSpeed, 150, Centi)
      \* pedals and natural torque
      torqueEffect == scale(effectiveCollective, 300, Milli)
      yaw == st.rotation.y
             - (IF controls.yawLeft THEN over(1500 + torqueEffect, delta) ELSE 0)
             + (IF controls.yawRight THEN over(1500 - torqueEffect, delta) ELSE 0)
             + scale(over(torqueEffect, delta), 300, Milli)
      pitch == clamp(st.rotation.x, 785)
      roll == clamp(st.rotation.z, 1047)
      \* vertical thrust with ground effect and translational lift
      groundHeight == Max(0, st.position.y - TERRAIN_HEIGHT)
      isInGE == groundHeight < 12 * Fine
      hover == scale(effectiveCollective, 25 * Centi, Milli)
      cushioned == IF isInGE
                   THEN scale(hover, Milli + scale(12 * Fine - groundHeight, 400, 12 * Fine), Milli)
                   ELSE hover
      verticalThrust ==
        IF horizontalSpeed > 5 * Centi /\ horizontalSpeed < 30 * Centi
        THEN scale(cushioned,
                   Milli + Min(250, scale(horizontalSpeed - 5 * Centi, 250, 20 * Centi)),
                   Milli)
        ELSE cushioned
      \* forward flight, drag, velocity
      tiltForce == multiplyScalar(forward(pitch, yaw),
                                  scale(effectiveCollective, 12 * Centi, Milli), delta)
      factor == dragFactor(dragOf(30, heliSpeed), delta)
      tilted == Vec(scale(velocity.x + tiltForce.x, factor, Milli),
                    scale(scale(velocity.y + over(verticalThrust - GRAVITY, delta),
                                factor, Milli), 950, Milli),
                    scale(velocity.z + tiltForce.z, factor, Milli))
      \* vortex ring state
      isVRS == -tilted.y > 5 * Centi /\ horizontalSpeed < 10 * Centi
               /\ effectiveCollective > 500
      flown == IF isVRS THEN [tilted EXCEPT !.y = @ - over(3 * Centi, delta)] ELSE tilted
      \* fuel
      s1 == IF fuel > 0 /\ effectiveCollective > 0
            THEN consumeFuel(s, scale(over(physics.fuelConsumptionRate * effectiveCollective,
                                           delta), 3, 2))
            ELSE s
      \* position and ground contact
      integrated == newPosition(st.position, flown, delta)
      landed == groundContact(integrated, flown)
      s2 == IF integrated.y < TERRAIN_HEIGHT + 1 * Fine
               /\ heliSpeed < 5 * Centi /\ fuel < 100 * Micro
            THEN refuel(s1, 20 * over(Micro, delta)) ELSE s1
      wrapped == [landed.position EXCEPT !.x = wrapWorld(@), !.z = wrapWorld(@)]
  IN [store |-> [s2 EXCEPT !.position = wrapped,
                           !.rotation = Vec(pitch, yaw, roll),
                           !.velocity = landed.velocity,
                           !.speed = heliSpeed,
                           !.altitude = wrapped.y],
      extended |-> [x1 EXCEPT !.rotorRPM = newRPM,
                              !.torque = newTorque,
                              !.stallWarning = isVRS,
                              !.verticalSpeed = flown.y,
                              !.inGroundEffect = isInGE],
      integrated |-> integrated.y]

\* the useFrame callback of part_003 for the player's aircraft, the model
\* loaded, while the pointer does not move (mouseDeltaRef stays {x: 0, y: 0},
\* which the exponential curve maps to 0) and the view, flaps, airbrake,
\* auto-level and trim keys are not pressed; the angle of attack shown by the
\* HUD is left out, its comparison with criticalAoA is isStallingOf
useFrame_part_003(st, x, socks, since, controls, delta) ==
  LET physics == AIRCRAFT_PHYSICS[st.aircraftType]
      fuel == st.fuel
      throttle == st.throttle
      velocity == st.velocity
      currentSpeed == currentSpeedOf(velocity)
      authority == authorityOf(physics, currentSpeed)
      \* trim and auto-level
      levelingForce == over(500, delta)
      pitchTrimmed == st.rotation.x + x.trimSettings.pitch
      rollTrimmed == st.rotation.z + x.trimSettings.roll
      pitchLevelled == IF x.autoLevelEnabled
                       THEN pitchTrimmed + scale(0 - pitchTrimmed, levelingForce, Milli)
                       ELSE pitchTrimmed
      rollLevelled == IF x.autoLevelEnabled
                      THEN rollTrimmed + scale(0 - rollTrimmed, levelingForce, Milli)
                      ELSE rollTrimmed
      yawStep == scale(over(physics.yawSpeed, delta), authority, Milli)
      yaw == st.rotation.y + x.trimSettings.yaw
             - (IF controls.yawLeft THEN yawStep ELSE 0)
             + (IF controls.yawRight THEN yawStep ELSE 0)
      \* throttle control, boost, fuel consumption or the decay without fuel
      keyed == keyedThrottle(physics, throttle, controls, delta)
      s1 == IF controls.throttleUp \/ controls.throttleDown
            THEN setThrottle(st, keyed) ELSE st
      isBoosting == controls.boost
      burns == fuel > 0 /\ keyed > 0
      newThrottle == IF ~burns /\ fuel <= 0 THEN Max(0, keyed - over(100, delta)) ELSE keyed
      s2 == IF burns
            THEN consumeFuel(s1, over(physics.fuelConsumptionRate * keyed, delta)
                                 * (IF isBoosting THEN 2 ELSE 1))
            ELSE IF fuel <= 0 THEN setThrottle(s1, newThrottle) ELSE s1
      pitch == clamp(pitchLevelled, scale(Pi, 2, 5))
      roll == clamp(rollLevelled, scale(Pi, 2, 3))
      fwd == forward(pitch, yaw)
      isStalling == isStallingOf(physics, fwd, velocity, currentSpeed)
      thrust == scale(scale(newThrottle, physics.maxSpeed, Milli),
                      IF isBoosting THEN 3 ELSE 2, 2)
      \* lift with flaps, stall and ground effect
      liftCoeff == physics.liftCoefficient + scale(x.flapsPosition, 80, Milli)
      winged == IF 10 * currentSpeed > 8 * physics.minFlightSpeed \/ isStalling
                THEN liftOf(IF isStalling THEN scale(liftCoeff, 3, 10) ELSE liftCoeff,
                            currentSpeed, pitch)
                ELSE 0
      groundHeight == Max(0, st.position.y - TERRAIN_HEIGHT)
      lift == IF groundHeight < 10 * Fine /\ groundHeight > 0
              THEN scale(winged, Milli + scale(10 * Fine - groundHeight, 300, 10 * Fine), Milli)
              ELSE winged
      \* drag with flaps and airbrake
      drag == dragOf(physics.dragCoefficient, currentSpeed)
              + dragOf(scale(x.flapsPosition, 15, Milli), currentSpeed)
              + (IF x.airbrakeDeployed THEN dragOf(50, currentSpeed) ELSE 0)
      thrustForce == multiplyScalar(fwd, thrust, delta)
      flown == newVelocity(velocity, thrustForce, lift, drag, delta)
      integrated == newPosition(st.position, flown, delta)
      landed == terrainCollision(integrated, flown, currentSpeed)
      s3 == IF integrated.y < TERRAIN_HEIGHT + 2 * Fine
               /\ currentSpeed < 10 * Centi /\ fuel < 100 * Micro
            THEN refuel(s2, 20 * over(Micro, delta)) ELSE s2
      wrapped == [landed.position EXCEPT !.x = wrapWorld(@), !.z = wrapWorld(@)]
      s4 == [s3 EXCEPT !.position = wrapped,
                       !.rotation = Vec(pitch, yaw, roll),
                       !.velocity = landed.velocity,
                       !.speed = currentSpeed,
                       !.altitude = wrapped.y]
      x1 == [x EXCEPT !.controlAuthority = authority, !.stallWarning = isStalling]
      due == sendDue(since, delta)
      sent == IF due THEN updateMultiplayerState(s4, socks) ELSE {}
      heli == helicopterBlock(st, s4, x1, controls, delta)
  IN IF st.aircraftType = "helicopter"
     THEN [store |-> heli.store,
           extended |-> heli.extended,
           integrated |-> heli.integrated,
           lift |-> lift,
           sent |-> sent,
           since |-> IF due THEN 0 ELSE since + delta]
     ELSE [store |-> s4,
           extended |-> x1,
           integrated |-> integrated.y,
           lift |-> lift,
           sent |-> sent,
           since |-> IF due THEN 0 ELSE since + delta]

\* the aircraft component when it mounts: which source runs, the frames run
\* so far, the time since its last send (now - lastMultiplayerUpdate.current),
\* the time since an updateState last left the client (both counted up to 34,
\* the first frame being more than 33 ms away from the page load), the extended
\* store fields
InitialAircraft(version) ==
  [version |-> version, frames |-> 0, since |-> 34, quiet |-> 34,
   extended |-> InitialExtended]

\* ----------------------------------------------------- flights and inputs
\* getKeys(): the keys held during a frame
Keys(up, down, boost, yawLeft, yawRight) ==
  [throttleUp |-> up, throttleDown |-> down, boost |-> boost,
   yawLeft |-> yawLeft, yawRight |-> yawRight]

NoKeys == Keys(FALSE, FALSE, FALSE, FALSE, FALSE)

FrameInput(controls, mouseDelta, delta) ==
  [controls |-> controls, mouseDelta |-> mouseDelta, delta |-> delta]

\* the frames that are run: keys, pointer movement since the last frame, and
\* frame times of 0, 16 ms, 100 ms and one second
FrameInputs ==
  {FrameInput(NoKeys, Vec(0, 0, 0), 0),
   FrameInput(NoKeys, Vec(0, 0, 0), 100),
   FrameInput(NoKeys, Vec(0, 0, 0), 1000),
   FrameInput(NoKeys, Vec(0, -300, 0), 100),
   FrameInput(Keys(TRUE, FALSE, FALSE, FALSE, FALSE), Vec(0, 0, 0), 100),
   FrameInput(Keys(TRUE, FALSE, FALSE, FALSE, FALSE), Vec(0, 0, 0), 1000),
   FrameInput(Keys(TRUE, FALSE, TRUE, FALSE, FALSE), Vec(0, 0, 0), 100),
   FrameInput(Keys(FALSE, TRUE, FALSE, FALSE, FALSE), Vec(0, 0, 0), 100),
   FrameInput(Keys(FALSE, TRUE, FALSE, FALSE, FALSE), Vec(0, 0, 0), 1000),
   FrameInput(Keys(TRUE, TRUE, FALSE, FALSE, FALSE), Vec(0, 0, 0), 100),
   FrameInput(Keys(FALSE, FALSE, FALSE, TRUE, FALSE), Vec(0, 0, 0), 16),
   FrameInput(Keys(FALSE, FALSE, FALSE, FALSE, TRUE), Vec(0, 0, 0), 16)}

\* situations of a flight a series of frames starts from, per aircraft type t:
\* the spawn, out of fuel in the air with the throttle still open, cruising on
\* the last drops of fuel, diving onto the ground, rolling slowly on the ground
FlightStarts(t) ==
  LET spawn == [InitialStore EXCEPT !.aircraftType = t] IN
  {spawn,
   [spawn EXCEPT !.fuel = 0, !.throttle = 600,
                 !.velocity = Vec(0, -5 * Centi, -20 * Centi), !.speed = 20 * Centi],
   [spawn EXCEPT !.fuel = 300, !.throttle = 600,
                 !.velocity = Vec(0, 0, -20 * Centi), !.speed = 20 * Centi],
   [spawn EXCEPT !.fuel = 50 * Micro, !.rotation = Vec(-300, 0, 0),
                 !.position = Vec(0, 250000, 0), !.altitude = 250000,
                 !.velocity = Vec(0, -30 * Centi, -2 * Centi), !.speed = 30 * Centi],
   [spawn EXCEPT !.fuel = 50 * Micro,
                 !.position = Vec(0, 2 * Fine, 0), !.altitude = 2 * Fine,
                 !.velocity = Vec(0, 0, -3 * Centi), !.speed = 3 * Centi]}

\* the extended fields a flight starts with: as initialised, or in landing
\* configuration with some collective
ExtendedStarts ==
  {InitialExtended,
   [InitialExtended EXCEPT !.flapsPosition = 660, !.airbrakeDeployed = TRUE,
                           !.autoLevelEnabled = TRUE, !.collectivePosition = 600]}

\* ----------------------------------------------------------------- sockets
\* socket.io rooms: socket.join(lobby.id) puts the socket in the room named by
\* the lobby id, and every connected socket is in the room named by its own id
Room(socks, h, name) ==
  {s \in DOMAIN socks : h[socks[s].lobby].id = name \/ s = name}

\* socket.to(room).emit(ev, data): to every socket of the room but the sender
broadcast(socks, h, sender, room, ev, data) ==
  {[to |-> s, ev |-> ev, data |-> data] : s \in Room(socks, h, room) \ {sender}}

Init ==
  LET e == ensureLobby(EmptyMap, EmptyMap, DEFAULT_LOBBY_ID, DEFAULT_LOBBY_NAME, 0) IN
  /\ lobbies = e.lobbies
  /\ heap = e.heap
  /\ sockets = EmptyMap
  /\ nextSocket = 0
  /\ now = 0
  /\ emitted = {}
  /\ response = NoResponse
  /\ last = [op |-> "registerRoutes"]
  /\ store = InitialStore
  /\ ioSockets = EmptyMap
  /\ effect = [hasJoinedLobby |-> FALSE, lobbyId |-> null, cleanup |-> FALSE]
  /\ aircraft = InitialAircraft("Aircraft")
  /\ peers = EmptyMap

\* Date.now() advances
Tick ==
  /\ now < MaxTime
  /\ now' = now + 1
  /\ emitted' = {}
  /\ response' = NoResponse
  /\ last' = [op |-> "tick"]
  /\ UNCHANGED <<lobbies, heap, sockets, nextSocket>>
  /\ UNCHANGED clientVars

\* app.get("/api/lobbies")
ListLobbies ==
  LET e == ensureLobby(lobbies, heap, DEFAULT_LOBBY_ID, DEFAULT_LOBBY_NAME, now) IN
  /\ lobbies' = e.lobbies
  /\ heap' = collect(e.lobbies, sockets, e.heap)
  /\ response' = [status |-> 200,
                  body |-> {getLobbySummary(e.heap[e.lobbies[id]]) : id \in DOMAIN e.lobbies}]
  /\ emitted' = {}
  /\ last' = [op |-> "list"]
  /\ UNCHANGED <<sockets, nextSocket, now>>
  /\ UNCHANGED clientVars

\* the name of the new lobby taken from the body without the trim
requestedNameNoTrim(reg, body) ==
  LET rawName == IF body.isString THEN body.value ELSE <<>> IN
  IF rawName # <<>> THEN rawName
  ELSE LobbyPrefix \o numberToString(Cardinality(DOMAIN reg) + 1)

\* the name POST /api/lobbies gives the new lobby
requestedName(reg, body) ==
  LET rawName == IF body.isString THEN trim(body.value) ELSE <<>> IN
  IF rawName # <<>> THEN rawName
  ELSE LobbyPrefix \o numberToString(Cardinality(DOMAIN reg) + 1)

\* app.post("/api/lobbies")
PostLobby(body, draws) ==
  LET name == requestedName(lobbies, body)
      c == createLobby(lobbies, heap, name, now, draws)
  IN
  /\ Cardinality(DOMAIN lobbies) < MaxLobbies
  /\ firstFree(lobbies, name, draws, 1) = Len(draws)
  /\ lobbies' = c.lobbies
  /\ heap' = collect(c.lobbies, sockets, c.heap)
  /\ response' = [status |-> 201, body |-> getLobbySummary(c.heap[c.lobby])]
  /\ emitted' = {}
  /\ last' = [op |-> "create", body |-> body, name |-> name, draws |-> draws]
  /\ UNCHANGED <<sockets, nextSocket, now>>
  /\ UNCHANGED clientVars

\* every connection sent to the default lobby, whatever its query
requestedLobbyIdIgnoresQuery(q) == DEFAULT_LOBBY_ID

\* the lobby id a connection resolves to
requestedLobbyId(q) ==
  IF q.isString /\ Len(q.value) > 0 THEN q.value ELSE DEFAULT_LOBBY_ID

\* io.on("connection")
Connection(q) ==
  LET sid == socketIdOf(nextSocket + 1)
      lobbyId == requestedLobbyId(q)
      e == ensureLobby(lobbies, heap, lobbyId, DEFAULT_LOBBY_NAME, now)
      lobby == e.lobby
      players == MapSet(e.heap[lobby].players, sid, newPlayer(sid))
      h == [e.heap EXCEPT ![lobby].players = players]
      socks == MapSet(sockets, sid, [lobby |-> lobby])
  IN
  /\ nextSocket' = nextSocket + 1
  /\ lobbies' = e.lobbies
  /\ heap' = collect(e.lobbies, socks, h)
  /\ sockets' = socks
  /\ emitted' =
       {[to |-> sid, ev |-> "init",
         data |-> [playerId |-> sid, players |-> Range(players)]]}
       \cup broadcast(socks, h, sid, h[lobby].id, "playerJoined", newPlayer(sid))
  /\ response' = NoResponse
  /\ last' = [op |-> "connection", socket |-> sid, query |-> q]
  /\ UNCHANGED now
  /\ UNCHANGED clientVars

\* updateState merging the payload into the stored entry (Object.assign)
UpdateStateMerges(sid, state) ==
  LET lobby == sockets[sid].lobby
      old == heap[lobby].players[sid]
      merged == [f \in (DOMAIN old) \cup (DOMAIN state) \cup {"id"} |->
                   IF f = "id" THEN sid
                   ELSE IF f \in DOMAIN state THEN state[f] ELSE old[f]]
      players == MapSet(heap[lobby].players, sid, merged)
      h == [heap EXCEPT ![lobby].players = players]
  IN
  /\ heap' = collect(lobbies, sockets, h)
  /\ emitted' = broadcast(sockets, h, sid, h[lobby].id, "playerUpdate", merged)
  /\ response' = NoResponse
  /\ last' = [op |-> "updateState", socket |-> sid, state |-> state]
  /\ UNCHANGED <<lobbies, sockets, nextSocket, now>>
  /\ UNCHANGED clientVars

\* socket.on("updateState")
UpdateState(sid, state) ==
  LET lobby == sockets[sid].lobby
      players == MapSet(heap[lobby].players, sid, stamp(state, sid))
      h == [heap EXCEPT ![lobby].players = players]
  IN
  /\ heap' = collect(lobbies, sockets, h)
  /\ emitted' = broadcast(sockets, h, sid, h[lobby].id, "playerUpdate", stamp(state, sid))
  /\ response' = NoResponse
  /\ last' = [op |-> "updateState", socket |-> sid, state |-> state]
  /\ UNCHANGED <<lobbies, sockets, nextSocket, now>>
  /\ UNCHANGED clientVars

\* the disconnect handler without players.delete
DisconnectKeepsPlayer(sid) ==
  LET lobby == sockets[sid].lobby
      socks == MapDelete(sockets, sid)
      reg == cleanupLobby(lobbies, heap, heap[lobby].id)
  IN
  /\ lobbies' = reg
  /\ heap' = collect(reg, socks, heap)
  /\ sockets' = socks
  /\ emitted' = broadcast(socks, heap, sid, heap[lobby].id, "playerLeft", sid)
  /\ response' = NoResponse
  /\ last' = [op |-> "disconnect", socket |-> sid, lobby |-> heap[lobby].id]
  /\ UNCHANGED <<nextSocket, now>>
  /\ UNCHANGED clientVars

\* the disconnect handler emptying the lobby (players.clear for players.delete)
DisconnectClearsLobby(sid) ==
  LET lobby == sockets[sid].lobby
      h == [heap EXCEPT ![lobby].players = EmptyMap]
      socks == MapDelete(sockets, sid)
      reg == cleanupLobby(lobbies, h, h[lobby].id)
  IN
  /\ lobbies' = reg
  /\ heap' = collect(reg, socks, h)
  /\ sockets' = socks
  /\ emitted' = broadcast(socks, h, sid, h[lobby].id, "playerLeft", sid)
  /\ response' = NoResponse
  /\ last' = [op |-> "disconnect", socket |-> sid, lobby |-> h[lobby].id]
  /\ UNCHANGED <<nextSocket, now>>
  /\ UNCHANGED clientVars

\* socket.on("disconnect"): the socket has left its rooms when the handler runs
Disconnect(sid) ==
  LET lobby == sockets[sid].lobby
      players == MapDelete(heap[lobby].players, sid)
      h == [heap EXCEPT ![lobby].players = players]
      socks == MapDelete(sockets, sid)
      reg == cleanupLobby(lobbies, h, h[lobby].id)
  IN
  /\ lobbies' = reg
  /\ heap' = collect(reg, socks, h)
  /\ sockets' = socks
  /\ emitted' = broadcast(socks, h, sid, h[lobby].id, "playerLeft", sid)
  /\ response' = NoResponse
  /\ last' = [op |-> "disconnect", socket |-> sid, lobby |-> h[lobby].id]
  /\ UNCHANGED <<nextSocket, now>>
  /\ UNCHANGED clientVars

\* ----------------------------------------------------------- client steps
\* the store and the sockets after a store action, the rest of the step
ClientStep(c, op) ==
  /\ store' = c.store
  /\ ioSockets' = c.ioSockets
  /\ last' = op
  /\ UNCHANGED <<serverVars, aircraft, peers>>

\* MultiplayerLobby: joinLobby(lobby.id, lobby.name)
JoinLobby(lobbyId) ==
  /\ ClientStep(joinLobby([store |-> store, ioSockets |-> ioSockets],
                          lobbyId, lobbyNameOf(lobbyId)),
                [op |-> "joinLobby", lobbyId |-> lobbyId])
  /\ UNCHANGED effect

LeaveLobby ==
  /\ ClientStep(leaveLobby([store |-> store, ioSockets |-> ioSockets]),
                [op |-> "leaveLobby"])
  /\ UNCHANGED effect

ConnectMultiplayer(lobbyIdParam) ==
  /\ ClientStep(connectMultiplayer([store |-> store, ioSockets |-> ioSockets],
                                   lobbyIdParam),
                [op |-> "connectMultiplayer", param |-> lobbyIdParam])
  /\ UNCHANGED effect

DisconnectMultiplayer ==
  /\ ClientStep(disconnectMultiplayer([store |-> store, ioSockets |-> ioSockets]),
                [op |-> "disconnectMultiplayer"])
  /\ UNCHANGED effect

\* App's useEffect on [hasJoinedLobby, lobbyId]: when a dependency has changed
\* the cleanup of the last run is called, then the effect runs again
AppEffect ==
  LET c == [store |-> store, ioSockets |-> ioSockets]
      cleaned == IF effect.cleanup THEN disconnectMultiplayer(c) ELSE c
      connects == store.hasJoinedLobby /\ truthy(store.lobbyId)
  IN
  /\ <<effect.hasJoinedLobby, effect.lobbyId>> # <<store.hasJoinedLobby, store.lobbyId>>
  /\ ClientStep(IF connects THEN connectMultiplayer(cleaned, store.lobbyId) ELSE cleaned,
                [op |-> "effect"])
  /\ effect' = [hasJoinedLobby |-> store.hasJoinedLobby, lobbyId |-> store.lobbyId,
                cleanup |-> connects]

\* socket.on("connect"): the transport of an open socket is up
OnConnect(n) ==
  /\ ioSockets[n].active
  /\ ~ioSockets[n].connected
  /\ ClientStep([store |-> [store EXCEPT !.isConnected = TRUE],
                 ioSockets |-> [ioSockets EXCEPT ![n].connected = TRUE]],
                [op |-> "connect", socket |-> n])
  /\ UNCHANGED effect

\* socket.on("disconnect") when the server or the network closed the transport:
\* the socket stays open and connects again
OnDisconnect(n) ==
  /\ ioSockets[n].connected
  /\ ClientStep([store |-> [store EXCEPT !.isConnected = FALSE],
                 ioSockets |-> [ioSockets EXCEPT ![n].connected = FALSE]],
                [op |-> "disconnect", socket |-> n])
  /\ UNCHANGED effect

\* socket.on("init")
OnInit(n, data) ==
  /\ ioSockets[n].connected
  /\ ClientStep([store |-> [store EXCEPT !.playerId = Str(data.playerId),
                                         !.otherPlayers = initOtherPlayers(data)],
                 ioSockets |-> ioSockets],
                [op |-> "init", socket |-> n, data |-> data])
  /\ UNCHANGED effect

\* socket.on("playerJoined")
OnPlayerJoined(n, player) ==
  /\ ioSockets[n].connected
  /\ ClientStep([store |-> addOtherPlayer(store, player), ioSockets |-> ioSockets],
                [op |-> "playerJoined", socket |-> n, player |-> player])
  /\ UNCHANGED effect

\* socket.on("playerUpdate")
OnPlayerUpdate(n, player) ==
  /\ ioSockets[n].connected
  /\ ClientStep([store |-> updateOtherPlayer(store, player), ioSockets |-> ioSockets],
                [op |-> "playerUpdate", socket |-> n, player |-> player])
  /\ UNCHANGED effect

\* socket.on("playerLeft")
OnPlayerLeft(n, playerId) ==
  /\ ioSockets[n].connected
  /\ ClientStep([store |-> removeOtherPlayer(store, playerId), ioSockets |-> ioSockets],
                [op |-> "playerLeft", socket |-> n, playerId |-> playerId])
  /\ UNCHANGED effect

\* -------------------------------------------------------------- frame steps
\* what a frame step leaves in the variables: r is the result of the callback
FrameStep(r, extended, input) ==
  /\ store' = r.store
  /\ aircraft' = [aircraft EXCEPT !.frames = Min(@ + 1, Max(MaxFrames, MaxTicks)),
                                  !.since = Min(r.since, 34),
                                  !.quiet = IF r.sent # {} THEN 0
                                            ELSE Min(@ + input.delta, 34),
                                  !.extended = extended]
  /\ last' = [op |-> "useFrame", input |-> input,
              before |-> [throttle |-> store.throttle, fuel |-> store.fuel,
                          altitude |-> store.altitude, velocity |-> store.velocity],
              integrated |-> r.integrated,
              lift |-> r.lift,
              sent |-> r.sent]
  /\ UNCHANGED <<serverVars, ioSockets, effect, peers>>

\* one frame of Aircraft.tsx
AircraftFrame(input) ==
  /\ aircraft.version = "Aircraft"
  /\ \E r \in {useFrame(store, ioSockets, aircraft.since,
                         input.controls, input.mouseDelta, input.delta)} :
       FrameStep(r, aircraft.extended, input)

\* one frame of part_003
AircraftFrame_part_003(input) ==
  /\ aircraft.version = "part_003"
  /\ input.mouseDelta = Vec(0, 0, 0)
  /\ \E r \in {useFrame_part_003(store, aircraft.extended, ioSockets, aircraft.since,
                                  input.controls, input.delta)} :
       FrameStep(r, r.extended, input)

\* the server alone: no client end is followed
Next ==
  \/ ListLobbies /\ UNCHANGED peers
  \/ \E body \in BodyNames, draws \in DrawSeqs : PostLobby(body, draws) /\ UNCHANGED peers
  \/ \E q \in Queries : nextSocket < MaxGuests /\ Connection(q) /\ UNCHANGED peers
  \/ \E sid \in DOMAIN sockets, state \in Payloads :
       UpdateState(sid, state) /\ UNCHANGED peers
  \/ \E sid \in DOMAIN sockets : Disconnect(sid) /\ UNCHANGED peers

Spec == Init /\ [][Next]_vars

\* the server without lobby creation requests, for more connections
NextRelay ==
  \/ Tick /\ UNCHANGED peers
  \/ ListLobbies /\ UNCHANGED peers
  \/ \E q \in RelayQueries : nextSocket < MaxSockets /\ Connection(q) /\ UNCHANGED peers
  \/ \E sid \in DOMAIN sockets, state \in RelayPayloads :
       UpdateState(sid, state) /\ UNCHANGED peers
  \/ \E sid \in DOMAIN sockets : Disconnect(sid) /\ UNCHANGED peers

SpecRelay == Init /\ [][NextRelay]_vars

\* one client: the lobby screen, the store's connection actions, App's effect
\* and the events of its sockets
NextClient ==
  \/ \E id \in LobbyChoices : JoinLobby(id)
  \/ LeaveLobby
  \/ \E p \in ConnectParams :
       Cardinality(DOMAIN ioSockets) < MaxOpens /\ ConnectMultiplayer(p)
  \/ DisconnectMultiplayer
  \/ Cardinality(DOMAIN ioSockets) < MaxOpens /\ AppEffect
  \/ \E n \in DOMAIN ioSockets : OnConnect(n)
  \/ \E n \in DOMAIN ioSockets : OnDisconnect(n)
  \/ \E n \in DOMAIN ioSockets, data \in InitPayloads : OnInit(n, data)
  \/ \E n \in DOMAIN ioSockets, p \in PeerStates : OnPlayerJoined(n, p)
  \/ \E n \in DOMAIN ioSockets, p \in PeerStates : OnPlayerUpdate(n, p)
  \/ \E n \in DOMAIN ioSockets : OnPlayerLeft(n, FirstSocketId)

SpecClient == Init /\ [][NextClient]_vars

\* flights: up to MaxFrames frames of either source, from the situations of
\* FlightStarts, with no socket open
InitFlight ==
  LET e == ensureLobby(EmptyMap, EmptyMap, DEFAULT_LOBBY_ID, DEFAULT_LOBBY_NAME, 0) IN
  /\ lobbies = e.lobbies
  /\ heap = e.heap
  /\ sockets = EmptyMap
  /\ nextSocket = 0
  /\ now = 0
  /\ emitted = {}
  /\ response = NoResponse
  /\ last = [op |-> "mount"]
  /\ \E t \in AircraftTypes : store \in FlightStarts(t)
  /\ ioSockets = EmptyMap
  /\ effect = [hasJoinedLobby |-> FALSE, lobbyId |-> null, cleanup |-> FALSE]
  /\ aircraft \in {InitialAircraft("Aircraft")}
                  \cup {[InitialAircraft("part_003") EXCEPT !.extended = x] :
                          x \in ExtendedStarts}
  /\ peers = EmptyMap

NextFlight ==
  \/ \E input \in FrameInputs : aircraft.frames < MaxFrames /\ AircraftFrame(input)
  \/ \E input \in FrameInputs : aircraft.frames < MaxFrames /\ AircraftFrame_part_003(input)

SpecFlight == InitFlight /\ [][NextFlight]_vars

\* glides: the throttle at zero and no key held, from an upward velocity at a
\* low or the spawn altitude; the render loop runs frame after frame, all of
\* one frame time
GlideStarts ==
  {[InitialStore EXCEPT !.aircraftType = t,
                        !.position = Vec(0, h, 0), !.altitude = h,
                        !.velocity = Vec(0, up, z)] :
     t \in AircraftTypes, h \in {3 * Fine, 50 * Fine},
     up \in {5 * Centi, 30 * Centi}, z \in {0, -20 * Centi}}

GlideDeltas == {16, 100}

InitGlide ==
  LET e == ensureLobby(EmptyMap, EmptyMap, DEFAULT_LOBBY_ID, DEFAULT_LOBBY_NAME, 0) IN
  /\ lobbies = e.lobbies
  /\ heap = e.heap
  /\ sockets = EmptyMap
  /\ nextSocket = 0
  /\ now = 0
  /\ emitted = {}
  /\ response = NoResponse
  /\ last = [op |-> "mount"]
  /\ store \in GlideStarts
  /\ ioSockets = EmptyMap
  /\ effect = [hasJoinedLobby |-> FALSE, lobbyId |-> null, cleanup |-> FALSE]
  /\ aircraft = InitialAircraft("Aircraft")
  /\ peers = EmptyMap

GlideFrame ==
  \E delta \in GlideDeltas :
    /\ last.op = "useFrame" => delta = last.input.delta
    /\ AircraftFrame(FrameInput(NoKeys, Vec(0, 0, 0), delta))

NextGlide == GlideFrame

SpecGlide == InitGlide /\ [][NextGlide]_vars /\ WF_vars(GlideFrame)

\* flights of a client that has joined the default lobby: at the spawn, or at
\* rest on the ground 10 units inside the northern edge of the world
OnlineStarts(t) ==
  LET spawn == [InitialStore EXCEPT !.aircraftType = t] IN
  {spawn,
   [spawn EXCEPT !.position = Vec(0, 2 * Fine, 10 * Fine - HALF_WORLD),
                 !.altitude = 2 * Fine]}

\* the frames that are run: at 60 frames a second, after a slow frame, with the
\* throttle key held, and the frame that follows a pause of the render loop
\* (requestAnimationFrame stops in a hidden tab and clock.getDelta() returns
\* the whole pause, here 6 s) during which the throttle key stayed down
OnlineInputs ==
  {FrameInput(NoKeys, Vec(0, 0, 0), 16),
   FrameInput(NoKeys, Vec(0, 0, 0), 100),
   FrameInput(Keys(TRUE, FALSE, FALSE, FALSE, FALSE), Vec(0, 0, 0), 16),
   FrameInput(Keys(TRUE, FALSE, FALSE, FALSE, FALSE), Vec(0, 0, 0), 6 * Second)}

\* the store and the sockets once joinLobby has run, before or after App's
\* effect has called connectMultiplayer
InitOnline ==
  LET e == ensureLobby(EmptyMap, EmptyMap, DEFAULT_LOBBY_ID, DEFAULT_LOBBY_NAME, 0) IN
  /\ lobbies = e.lobbies
  /\ heap = e.heap
  /\ sockets = EmptyMap
  /\ nextSocket = 0
  /\ now = 0
  /\ emitted = {}
  /\ response = NoResponse
  /\ last = [op |-> "mount"]
  /\ \E st \in UNION {OnlineStarts(t) : t \in AircraftTypes}, connects \in BOOLEAN :
       \E c \in {joinLobby([store |-> st, ioSockets |-> EmptyMap],
                            DEFAULT_LOBBY_ID, DEFAULT_LOBBY_NAME)} :
         \E d \in {IF connects THEN connectMultiplayer(c, c.store.lobbyId) ELSE c} :
           /\ store = d.store
           /\ ioSockets = d.ioSockets
           /\ effect = [hasJoinedLobby |-> connects,
                        lobbyId |-> IF connects THEN d.store.lobbyId ELSE null,
                        cleanup |-> connects]
  /\ aircraft \in {InitialAircraft("Aircraft"), InitialAircraft("part_003")}
  /\ peers = EmptyMap

\* the pause is the first frame of the flight that is followed
NextOnline ==
  \/ \E input \in OnlineInputs :
       /\ aircraft.frames < MaxTicks
       /\ input.delta > Second => aircraft.frames = 0
       /\ AircraftFrame(input)
  \/ \E input \in OnlineInputs :
       /\ aircraft.frames < MaxTicks
       /\ input.delta > Second => aircraft.frames = 0
       /\ AircraftFrame_part_003(input)
  \/ \E n \in DOMAIN ioSockets : OnConnect(n)
  \/ \E n \in DOMAIN ioSockets : OnDisconnect(n)

SpecOnline == InitOnline /\ [][NextOnline]_vars

\* ---------------------------------------------------------------- session
\* the server with the client end of every connection: the store of a client
\* as its socket handlers find it when the socket opens
NewPeer == [playerId |-> null, otherPlayers |-> EmptyMap, inbox |-> <<>>]

\* the messages of a handler on their way: a handler emits at most one message
\* to a socket, the messages to one socket arrive in the order of their
\* emission, and the client end of a closed connection is gone
transmit(p, msgs, socks) ==
  [s \in DOMAIN socks |->
     LET end == IF s \in DOMAIN p THEN p[s] ELSE NewPeer
         sent == {m \in msgs : m.to = s}
     IN [end EXCEPT !.inbox = IF sent = {} THEN @
                              ELSE Append(@, CHOOSE m \in sent : TRUE)]]

\* a server handler runs and its messages leave, while no client has
\* MaxInFlight messages waiting
Transmit ==
  /\ \A s \in DOMAIN peers : Len(peers[s].inbox) < MaxInFlight
  /\ peers' = transmit(peers, emitted', sockets')

\* the handlers connectMultiplayer registers on the socket, run on the next
\* message that arrives
handle(p, m) ==
  CASE m.ev = "init" ->
         [p EXCEPT !.playerId = Str(m.data.playerId),
                   !.otherPlayers = initOtherPlayers(m.data)]
    [] m.ev = "playerJoined" -> addOtherPlayer(p, m.data)
    [] m.ev = "playerUpdate" -> updateOtherPlayer(p, m.data)
    [] m.ev = "playerLeft" -> removeOtherPlayer(p, m.data)

\* the client of connection sid receives the first message in flight to it
Receive(sid) ==
  /\ peers[sid].inbox # <<>>
  /\ peers' = [peers EXCEPT ![sid] =
                 [handle(peers[sid], Head(peers[sid].inbox))
                    EXCEPT !.inbox = Tail(peers[sid].inbox)]]
  /\ last' = [op |-> "receive", socket |-> sid, message |-> Head(peers[sid].inbox)]
  /\ UNCHANGED serverVars
  /\ UNCHANGED clientVars

NextSession ==
  \/ \E q \in RelayQueries : nextSocket < MaxSockets /\ Connection(q) /\ Transmit
  \/ \E sid \in DOMAIN sockets, state \in RelayPayloads :
       UpdateState(sid, state) /\ Transmit
  \/ \E sid \in DOMAIN sockets : Disconnect(sid) /\ Transmit
  \/ \E sid \in DOMAIN peers : Receive(sid)

SpecSession == Init /\ [][NextSession]_vars

\* ------------------------------------------------------------- vocabulary
\* the Lobby object and the player mapping a connected socket closed over
lobbyOf(sid) == sockets[sid].lobby
playersOf(sid) == heap[sockets[sid].lobby].players

\* the connected sockets that joined the lobby of `sid`, `sid` left out
peersOf(sid) == {s \in DOMAIN sockets : s # sid /\ lobbyOf(s) = lobbyOf(sid)}

\* the messages of the last handler that went to `sid` under event `ev`
received(sid, ev) == {m \in emitted : m.to = sid /\ m.ev = ev}

\* ------------------------------------------------------------------- C1
\* C1: with A and B in the same lobby and C in another one, an updateState of A
\* makes the server emit exactly one playerUpdate to B, carrying A's id, none to
\* C and none back to A.
C1_UpdateStaysInLobby ==
  last.op = "updateState" =>
    LET a == last.socket IN
    /\ received(a, "playerUpdate") = {}
    /\ \A b \in peersOf(a) :
         /\ Cardinality(received(b, "playerUpdate")) = 1
         /\ \A m \in received(b, "playerUpdate") : m.data.id = a
    /\ \A c \in DOMAIN sockets \ (peersOf(a) \cup {a}) :
         received(c, "playerUpdate") = {}

\* ------------------------------------------------------------------- C2
\* C2: whatever id the payload of an updateState carries, the entry written and
\* the playerUpdate broadcast carry the sender's connection id, and the update
\* creates, overwrites or removes the entry of no other player.
C2_UpdateCannotSpoof ==
  [][last'.op = "updateState" =>
       LET a == last'.socket IN
       /\ a \in DOMAIN heap'[sockets'[a].lobby].players
       /\ heap'[sockets'[a].lobby].players[a].id = a
       /\ \A m \in emitted' : m.ev = "playerUpdate" /\ m.data.id = a
       /\ DOMAIN heap' = DOMAIN heap
       /\ \A r \in DOMAIN heap :
            /\ DOMAIN heap'[r].players = DOMAIN heap[r].players
            /\ \A k \in DOMAIN heap[r].players \ {a} :
                 heap'[r].players[k] = heap[r].players[k]]_vars

\* an update whose payload names another player of the same lobby has been relayed
C2_Witness ==
  /\ last.op = "updateState"
  /\ "id" \in DOMAIN last.state
  /\ last.state.id \in peersOf(last.socket)
  /\ received(last.state.id, "playerUpdate") # {}

\* ------------------------------------------------------------------- C3
\* C3: once registerRoutes has run, the lobby "open-skies" is in the registry in
\* every reachable state; cleanup never deletes it, even when it is empty.
C3_DefaultLobbyAlwaysPresent ==
  /\ DEFAULT_LOBBY_ID \in DOMAIN lobbies
  /\ lobbies[DEFAULT_LOBBY_ID] \in DOMAIN heap
  /\ heap[lobbies[DEFAULT_LOBBY_ID]].id = DEFAULT_LOBBY_ID

\* the last player of the default lobby has disconnected and cleanup has run on it
C3_Witness ==
  /\ last.op = "disconnect"
  /\ last.lobby = DEFAULT_LOBBY_ID
  /\ DEFAULT_LOBBY_ID \in DOMAIN lobbies
  /\ DOMAIN heap[lobbies[DEFAULT_LOBBY_ID]].players = {}

\* ------------------------------------------------------------------- C4
\* the list endpoint returns the summaries of exactly the lobbies of the registry
C4_ListIsRegistry ==
  last.op = "list" =>
    /\ response.status = 200
    /\ {e.id : e \in response.body} = DOMAIN lobbies
    /\ \A e \in response.body :
         e.playerCount = Cardinality(DOMAIN heap[lobbies[e.id]].players)

\* a disconnect that empties a non-default lobby removes it, one that empties the
\* default lobby leaves it listed with playerCount 0, any other changes no lobby
C4_DisconnectStep ==
  last'.op = "disconnect" =>
    LET sid == last'.socket
        id == heap[sockets[sid].lobby].id
        alone == DOMAIN heap[sockets[sid].lobby].players = {sid}
    IN
    /\ (alone /\ id # DEFAULT_LOBBY_ID) => id \notin DOMAIN lobbies'
    /\ (alone /\ id = DEFAULT_LOBBY_ID) =>
         /\ id \in DOMAIN lobbies'
         /\ getLobbySummary(heap'[lobbies'[id]]).playerCount = 0
    /\ ~alone => lobbies' = lobbies

\* a lobby leaves the registry only in the disconnect of the one player it holds
C4_DeletionStep ==
  /\ \A id \in (DOMAIN lobbies) \ (DOMAIN lobbies') :
       /\ last'.op = "disconnect"
       /\ DOMAIN heap[lobbies[id]].players = {last'.socket}
  /\ \A id \in (DOMAIN lobbies) \cap (DOMAIN lobbies') : lobbies'[id] = lobbies[id]

\* a lobby id enters the registry only through a connection that names it or a
\* creation request
C4_CreationStep ==
  \A id \in (DOMAIN lobbies') \ (DOMAIN lobbies) :
    \/ last'.op = "connection" /\ requestedLobbyId(last'.query) = id
    \/ last'.op = "create"

\* C4 as stated: ... the lobby removed by the disconnect of its last player is
\* absent from every list result that follows.
C4_RemovedLobbyStaysAbsent ==
  /\ []C4_ListIsRegistry
  /\ [][/\ C4_DisconnectStep
        /\ C4_DeletionStep
        /\ (last.op = "disconnect" /\ last.lobby \notin DOMAIN lobbies)
             => last.lobby \notin DOMAIN lobbies']_vars

\* C4 (amended): a non-default lobby is deleted exactly when its player mapping
\* becomes empty: the disconnect that removes its last player removes the lobby,
\* which is then absent from the list results until a later connection naming
\* its id (or a creation request) creates a lobby with that id again; no lobby
\* is deleted while its mapping holds a player; the default lobby stays listed
\* with playerCount 0 when its last player disconnects.
C4_EmptiedLobbyIsDeleted ==
  /\ []C4_ListIsRegistry
  /\ [][C4_DisconnectStep /\ C4_DeletionStep /\ C4_CreationStep]_vars

\* the last player of a non-default lobby has disconnected, others stay connected
C4_Witness ==
  /\ last.op = "disconnect"
  /\ last.lobby # DEFAULT_LOBBY_ID
  /\ last.lobby \notin DOMAIN lobbies
  /\ sockets # EmptyMap

\* ------------------------------------------------------------------- C5
\* the connected sockets that joined the lobby `id`
joined(id) == {s \in DOMAIN sockets : heap[lobbyOf(s)].id = id}

\* C5: the playerCount the list endpoint reports for a lobby is the number of
\* connected sockets that joined it (0 for the default lobby before any
\* connection; connects, disconnects and updates keep it so).
C5_PlayerCountIsLive ==
  /\ \A id \in DOMAIN lobbies :
       getLobbySummary(heap[lobbies[id]]).playerCount = Cardinality(joined(id))
  /\ last.op = "list" =>
       \A e \in response.body : e.playerCount = Cardinality(joined(e.id))
  /\ last.op = "registerRoutes" =>
       getLobbySummary(heap[lobbies[DEFAULT_LOBBY_ID]]).playerCount = 0

\* a list was served while a lobby had two players, after a disconnect
C5_Witness ==
  /\ last.op = "list"
  /\ nextSocket > Cardinality(DOMAIN sockets)
  /\ \E e \in response.body : e.playerCount = 2

\* ------------------------------------------------------------------- C6
\* `id` is <prefix>-<four digits not starting with 0>, the prefix being the
\* lower-cased letters and digits of `name` in order, joined by single dashes,
\* or "lobby" when the name has none
C6_HasSlugForm(id, name) ==
  LET n == Len(id)
      prefix == SubSeq(id, 1, n - 5)
      wanted == SelectSeq(toLowerCase(name), LAMBDA c : c \in SlugChars)
  IN
  /\ n >= 6
  /\ id[n - 4] = "-"
  /\ \A i \in (n - 3)..n : id[i] \in Range(Digits)
  /\ id[n - 3] # "0"
  /\ \A i \in 1..Len(prefix) : prefix[i] \in SlugChars \cup {"-"}
  /\ prefix[1] # "-" /\ prefix[Len(prefix)] # "-"
  /\ \A i \in 1..(Len(prefix) - 1) : ~(prefix[i] = "-" /\ prefix[i + 1] = "-")
  /\ IF wanted = <<>> THEN prefix = <<"l","o","b","b","y">>
     ELSE SelectSeq(prefix, LAMBDA c : c \in SlugChars) = wanted
  /\ name = <<"M","y"," ","L">> => prefix = <<"m","y","-","l">>

\* C6: every create(name) adds exactly one lobby, empty, under an id that was
\* not in the registry and has the form <slug of name>-<1000..9999>; no lobby
\* that existed is replaced or modified, so two creates with one name leave two
\* lobbies, both listed.
C6_CreateAddsOneFreshLobby ==
  /\ []C4_ListIsRegistry
  /\ [][last'.op = "create" =>
          \E id \in DOMAIN lobbies' :
            /\ id \notin DOMAIN lobbies
            /\ DOMAIN lobbies' = (DOMAIN lobbies) \cup {id}
            /\ heap'[lobbies'[id]].id = id
            /\ heap'[lobbies'[id]].name = last'.name
            /\ DOMAIN heap'[lobbies'[id]].players = {}
            /\ C6_HasSlugForm(id, last'.name)
            /\ response'.status = 201
            /\ response'.body.id = id
            /\ \A old \in DOMAIN lobbies :
                 /\ lobbies'[old] = lobbies[old]
                 /\ heap'[lobbies[old]] = heap[lobbies[old]]]_vars

\* a second create with the same name has retried a colliding id, and both
\* lobbies are in the registry
C6_Witness ==
  /\ last.op = "create"
  /\ Len(last.draws) = 2
  /\ \E a, b \in DOMAIN lobbies :
       /\ a # b
       /\ heap[lobbies[a]].name = last.name
       /\ heap[lobbies[b]].name = last.name

\* ------------------------------------------------------------------- C7
\* the registry cleanup(lobbyId) is to leave
C7_Expected(reg, h, id) ==
  IF id \in DOMAIN reg /\ id # DEFAULT_LOBBY_ID /\ DOMAIN h[reg[id]].players = {}
  THEN [x \in (DOMAIN reg) \ {id} |-> reg[x]]
  ELSE reg

\* C7: cleanup(lobbyId) removes the lobby iff it exists, is not "open-skies" and
\* has no player, and changes nothing otherwise; it runs after every removal of
\* a player from a mapping.
C7_CleanupDeletesOnlyEmptyNonDefault ==
  /\ [](\A id \in (DOMAIN lobbies) \cup {UnlistedLobbyId, FirstSocketId} :
          cleanupLobby(lobbies, heap, id) = C7_Expected(lobbies, heap, id))
  /\ [][\A r \in DOMAIN heap : \A k \in DOMAIN heap[r].players :
          (r \notin DOMAIN heap' \/ k \notin DOMAIN heap'[r].players) =>
            lobbies' = C7_Expected(lobbies,
                          [heap EXCEPT ![r].players =
                             [x \in (DOMAIN heap[r].players) \ {k} |-> heap[r].players[x]]],
                          heap[r].id)]_vars

\* cleanup has run on a non-default lobby that still holds a player, and kept it
C7_Witness ==
  /\ last.op = "disconnect"
  /\ last.lobby # DEFAULT_LOBBY_ID
  /\ last.lobby \in DOMAIN lobbies
  /\ DOMAIN heap[lobbies[last.lobby]].players # {}

\* ------------------------------------------------------------------- C8
\* C8: ensure(id) on an id of the registry returns the existing lobby and
\* changes nothing, so a connection to an existing lobby keeps its name, its
\* creation timestamp and the players in it; ensure twice is ensure once.
C8_EnsureKeepsExistingLobby ==
  /\ [](\A name \in {DEFAULT_LOBBY_NAME, UnlistedLobbyId} : \A t \in 0..MaxTime :
          /\ \A id \in DOMAIN lobbies :
               ensureLobby(lobbies, heap, id, name, t) =
                 [lobbies |-> lobbies, heap |-> heap, lobby |-> lobbies[id]]
          /\ \A id \in (DOMAIN lobbies) \cup {UnlistedLobbyId, FirstSocketId} :
               LET once == ensureLobby(lobbies, heap, id, DEFAULT_LOBBY_NAME, now) IN
               ensureLobby(once.lobbies, once.heap, id, name, t) = once)
  /\ [][last'.op = "connection" =>
          \A id \in DOMAIN lobbies :
            /\ lobbies'[id] = lobbies[id]
            /\ heap'[lobbies[id]].name = heap[lobbies[id]].name
            /\ heap'[lobbies[id]].createdAt = heap[lobbies[id]].createdAt
            /\ \A k \in DOMAIN heap[lobbies[id]].players :
                 /\ k \in DOMAIN heap'[lobbies[id]].players
                 /\ heap'[lobbies[id]].players[k] = heap[lobbies[id]].players[k]]_vars

\* a socket has joined an older lobby in which a peer had already updated its state
C8_Witness ==
  /\ last.op = "connection"
  /\ heap[lobbyOf(last.socket)].createdAt < now
  /\ \E k \in peersOf(last.socket) : playersOf(k)[k] # newPlayer(k)

\* ------------------------------------------------------------------- C9
\* C9: the init sent to a joining client carries its id and, as roster, exactly
\* its lobby's player mapping: itself with the spawn defaults and the current
\* state of every peer of the lobby, no player of another lobby.
C9_InitCarriesLobbyRoster ==
  last.op = "connection" =>
    LET sid == last.socket
        own == [id |-> sid,
                position |-> [x |-> 0, y |-> 50, z |-> 0],
                rotation |-> [x |-> 0, y |-> 0, z |-> 0],
                velocity |-> [x |-> 0, y |-> 0, z |-> 0],
                fuel |-> 100, throttle |-> 0, aircraftType |-> "cessna"]
    IN
    /\ Cardinality(received(sid, "init")) = 1
    /\ \A m \in received(sid, "init") :
         /\ m.data.playerId = sid
         /\ m.data.players = {playersOf(sid)[k] : k \in DOMAIN playersOf(sid)}
         /\ own \in m.data.players
         /\ {p.id : p \in m.data.players} = peersOf(sid) \cup {sid}
         /\ \A p \in m.data.players : p.id # sid => p = playersOf(p.id)[p.id]
    /\ \A s \in DOMAIN sockets \ {sid} : received(s, "init") = {}

\* a socket has joined a lobby that held an updated peer while a third player
\* was in another lobby
C9_Witness ==
  /\ last.op = "connection"
  /\ \E k \in peersOf(last.socket) : playersOf(k)[k] # newPlayer(k)
  /\ \E s \in DOMAIN sockets : lobbyOf(s) # lobbyOf(last.socket)

\* ------------------------------------------------------------------ C10
\* C10: playerJoined and playerLeft reach exactly the other sockets of the
\* player's lobby, and no socket of any other lobby.
C10_MembershipStaysInLobby ==
  /\ last.op = "connection" =>
       /\ {m.to : m \in {x \in emitted : x.ev = "playerJoined"}} = peersOf(last.socket)
       /\ \A m \in emitted : m.ev = "playerJoined" => m.data.id = last.socket
  /\ last.op = "disconnect" =>
       /\ {m.to : m \in {x \in emitted : x.ev = "playerLeft"}} = joined(last.lobby)
       /\ \A m \in emitted : m.ev = "playerLeft" => m.data = last.socket

\* ------------------------------------------------------------------ C11
\* C11: once the disconnect handler of a connection has run, its player id is in
\* no lobby mapping in any later state; a later connection is registered under
\* an id no earlier connection had, with the spawn defaults, and finds no entry
\* under its id.
C11_DisconnectedIsTerminal ==
  /\ [](\A n \in 1..nextSocket :
          socketIdOf(n) \notin DOMAIN sockets =>
            \A r \in DOMAIN heap : socketIdOf(n) \notin DOMAIN heap[r].players)
  /\ [][last'.op = "connection" =>
          LET a == last'.socket IN
          /\ a \notin {socketIdOf(n) : n \in 1..nextSocket}
          /\ \A r \in DOMAIN heap : a \notin DOMAIN heap[r].players
          /\ heap'[sockets'[a].lobby].players[a] =
               [id |-> a,
                position |-> [x |-> 0, y |-> 50, z |-> 0],
                rotation |-> [x |-> 0, y |-> 0, z |-> 0],
                velocity |-> [x |-> 0, y |-> 0, z |-> 0],
                fuel |-> 100, throttle |-> 0, aircraftType |-> "cessna"]]_vars

\* a connection has been registered in a lobby that holds an updated player,
\* after the first connection was closed
C11_Witness ==
  /\ last.op = "connection"
  /\ FirstSocketId \notin DOMAIN sockets
  /\ last.socket # FirstSocketId
  /\ \E k \in peersOf(last.socket) : playersOf(k)[k].fuel # 100

\* ------------------------------------------------------------------ C12
\* C12: the lobby of a connection is the one its lobbyId query names, "open-skies"
\* when the query is missing or empty; it is the same Lobby in every later state
\* of the connection, its player is in that lobby's mapping, and an updateState
\* or a disconnect changes the mapping of no other lobby.
C12_LobbyFixedAtConnect ==
  /\ [](\A s \in DOMAIN sockets : s \in DOMAIN playersOf(s))
  /\ [][/\ last'.op = "connection" =>
             heap'[sockets'[last'.socket].lobby].id =
               IF last'.query.isString /\ last'.query.value # <<>>
               THEN last'.query.value
               ELSE <<"o","p","e","n","-","s","k","i","e","s">>
        /\ \A s \in (DOMAIN sockets) \cap (DOMAIN sockets') :
             /\ sockets'[s].lobby = sockets[s].lobby
             /\ heap'[sockets'[s].lobby].id = heap[sockets[s].lobby].id
        /\ last'.op \in {"updateState", "disconnect"} =>
             \A r \in DOMAIN heap \ {sockets[last'.socket].lobby} :
               /\ r \in DOMAIN heap'
               /\ heap'[r].players = heap[r].players]_vars

\* a player of a lobby its client named has sent an update while another lobby
\* held a player
C12_Witness ==
  /\ last.op = "updateState"
  /\ heap[lobbyOf(last.socket)].id = UnlistedLobbyId
  /\ \E s \in DOMAIN sockets : heap[lobbyOf(s)].id = DEFAULT_LOBBY_ID

\* ------------------------------------------------------------------ C13
\* C13: after updateState(s) the sender's entry has the fields of s and the field
\* id, every field but id has the value s gives it, and id is the connection id
\* before and after: nothing of the old entry survives.
C13_UpdateReplacesEntry ==
  [][last'.op = "updateState" =>
       LET a == last'.socket
           s == last'.state
           before == heap[sockets[a].lobby].players[a]
           after == heap'[sockets'[a].lobby].players[a]
       IN
       /\ DOMAIN after = (DOMAIN s) \cup {"id"}
       /\ \A f \in (DOMAIN s) \ {"id"} : after[f] = s[f]
       /\ before.id = a
       /\ after.id = a]_vars

\* an update carrying only a fuel level has replaced a complete entry
C13_Witness ==
  /\ last.op = "updateState"
  /\ last.state = [fuel |-> 5]
  /\ playersOf(last.socket)[last.socket] = [fuel |-> 5, id |-> last.socket]

\* ------------------------------------------------------------------ C14
\* C14: every creation request is answered 201 with the summary of the lobby it
\* added, playerCount 0; when the name is missing, not a string, empty or only
\* white space the lobby is named "Lobby N", N the registry size plus one.
C14_NamelessCreateFallsBack ==
  [][last'.op = "create" =>
       LET body == last'.body
           blank == \/ ~body.isString
                    \/ \A i \in 1..Len(body.value) : body.value[i] \in {" ", "\t", "\n"}
           N == Cardinality(DOMAIN lobbies) + 1
       IN
       /\ response'.status = 201
       /\ Cardinality((DOMAIN lobbies') \ (DOMAIN lobbies)) = 1
       /\ \A id \in (DOMAIN lobbies') \ (DOMAIN lobbies) :
            LET l == heap'[lobbies'[id]] IN
            /\ response'.body = [id |-> id, name |-> l.name,
                                 createdAt |-> l.createdAt, playerCount |-> 0]
            /\ DOMAIN l.players = {}
            /\ blank => l.name = <<"L","o","b","b","y"," ">>
                                   \o <<(<<"1","2","3","4","5","6","7","8","9">>)[N]>>]_vars

\* a request whose name is only white space has created the second lobby
C14_Witness ==
  /\ last.op = "create"
  /\ last.body = [isString |-> TRUE, value |-> <<" ", "\t">>]
  /\ response.status = 201
  /\ response.body.name = <<"L","o","b","b","y"," ","2">>

\* ------------------------------------------------------------------ C19
\* C19: in every reachable state each entry stored under key k has id k, every key
\* of a mapping is the id of a connected socket, and the id of a connected
\* socket is a key of exactly one mapping, that of the lobby it joined.
C19_MappingsMatchSockets ==
  /\ \A r \in DOMAIN heap : \A k \in DOMAIN heap[r].players :
       /\ heap[r].players[k].id = k
       /\ k \in DOMAIN sockets
  /\ \A s \in DOMAIN sockets :
       {r \in DOMAIN heap : s \in DOMAIN heap[r].players} = {lobbyOf(s)}

\* two players are in different lobbies, a third connection is closed, and the
\* last update carried the id of another player
C19_Witness ==
  /\ nextSocket = 3
  /\ Cardinality(DOMAIN sockets) = 2
  /\ \E a, b \in DOMAIN sockets : lobbyOf(a) # lobbyOf(b)
  /\ last.op = "updateState"
  /\ last.state.id # last.socket

\* ------------------------------------------------------------------ C20
\* C20: the client has at most one open socket in every state; a step that opens
\* a socket leaves every socket that existed closed; after joinLobby to another
\* lobby and after leaveLobby no socket is open, and joinLobby leaves playerId
\* null and otherPlayers empty; connectMultiplayer with no lobby id in the
\* argument or the store changes neither the store nor the sockets.
C20_OneLiveSocket ==
  /\ [](Cardinality({n \in DOMAIN ioSockets : ioSockets[n].active}) <= 1)
  /\ [][/\ DOMAIN ioSockets' # DOMAIN ioSockets =>
             \A n \in DOMAIN ioSockets : ~ioSockets'[n].active
        /\ (/\ last'.op = "joinLobby"
            /\ ~(store.hasJoinedLobby /\ store.lobbyId = Str(last'.lobbyId))) =>
             /\ \A n \in DOMAIN ioSockets' : ~ioSockets'[n].active
             /\ store'.lobbyId = Str(last'.lobbyId)
             /\ store'.playerId = null
             /\ store'.otherPlayers = EmptyMap
        /\ last'.op = "leaveLobby" =>
             \A n \in DOMAIN ioSockets' : ~ioSockets'[n].active
        /\ (/\ last'.op = "connectMultiplayer"
            /\ ~(last'.param.isString /\ last'.param.value # <<>>)
            /\ ~(store.lobbyId.isString /\ store.lobbyId.value # <<>>)) =>
             /\ store' = store
             /\ ioSockets' = ioSockets]_vars

\* connectMultiplayer has opened a socket while an earlier socket of the client
\* is closed
C20_Witness ==
  /\ last.op = "connectMultiplayer"
  /\ store.socket # NoSocket
  /\ ioSockets[store.socket].active
  /\ \E n \in DOMAIN ioSockets : n # store.socket /\ ~ioSockets[n].active

\* --------------------------------------------------------------------- C15
\* C15: for every aircraft type, after any sequence of physics ticks with any
\* combination of control inputs and any non-negative time steps, the stored
\* throttle is within [0,1] and the stored fuel is within [0,100].
C15_ThrottleAndFuelInRange ==
  /\ 0 <= store.throttle /\ store.throttle <= Milli
  /\ 0 <= store.fuel /\ store.fuel <= 100 * Micro

\* a frame with throttle-up held has raised the throttle to its maximum and
\* burnt more than the fuel that was left
C15_Witness ==
  /\ last.op = "useFrame"
  /\ last.input.controls.throttleUp
  /\ last.before.throttle < Milli /\ store.throttle = Milli
  /\ last.before.fuel > 0 /\ store.fuel = 0

\* --------------------------------------------------------------------- C16
\* the ground clearance of the block that commits the position: terrain
\* height + 1 in the helicopter block of part_003, terrain height + 2 otherwise
groundClearance ==
  TERRAIN_HEIGHT
  + (IF aircraft.version = "part_003" /\ store.aircraftType = "helicopter"
     THEN 1 ELSE 2) * Fine

\* C16: in every physics tick whose integrated position.y is below the ground
\* clearance, the position committed to the store has y equal to the clearance
\* and the velocity committed has y >= 0; the stored altitude is never below
\* the clearance.
C16_GroundClamp ==
  /\ store.altitude >= groundClearance
  /\ store.position.y >= groundClearance
  /\ last.op = "useFrame" /\ last.integrated < groundClearance
       => /\ store.position.y = groundClearance
          /\ store.altitude = groundClearance
          /\ store.velocity.y >= 0

\* a frame of a descending aircraft integrated a position below the clearance
C16_Witness ==
  /\ last.op = "useFrame"
  /\ last.before.velocity.y < 0
  /\ last.integrated < groundClearance
  /\ store.position.y = groundClearance
  /\ store.velocity.y = 0

\* --------------------------------------------------------------------- C17
\* C17: while fuel is 0, throttle never increases from one tick to the next,
\* even when throttle-up is held.
C17_ZeroFuelThrottleDecays ==
  last.op = "useFrame" /\ last.before.fuel = 0 /\ store.fuel = 0
    => store.throttle <= last.before.throttle

\* --------------------------------------------------------------------- C18
\* the vertical velocity of a fall at zero throttle after one more frame
fall(physics, vy, delta) ==
  LET speed == currentSpeedOf(Vec(0, vy, 0)) IN
  newVelocity(Vec(0, vy, 0), Vec(0, 0, 0),
              IF speed > physics.minFlightSpeed
              THEN liftOf(physics.liftCoefficient, speed, 0) ELSE 0,
              dragOf(physics.dragCoefficient, speed), delta).y

\* the terminal value is the downward velocity that a frame of fall leaves
\* unchanged, gravity and the drag factor balancing; a slower fall gains speed
\* in a frame, a faster one loses some
atTerminal(vy) ==
  vy < 0 /\ fall(AIRCRAFT_PHYSICS[store.aircraftType], vy, last.input.delta) = vy

aboveTerminal(vy) ==
  fall(AIRCRAFT_PHYSICS[store.aircraftType], vy, last.input.delta) < vy

airborne == last.op = "useFrame" /\ last.integrated >= groundClearance

C21_CacheMirrorsLobby ==
  \A s \in DOMAIN peers :
    /\ s \notin DOMAIN peers[s].otherPlayers
    /\ peers[s].inbox = <<>> =>
         DOMAIN peers[s].otherPlayers = (DOMAIN playersOf(s)) \ {s}

\* --------------------------------------------------------------------- C22
\* C22: a playerUpdate for an id that is not a key of the client's otherPlayers
\* cache leaves the cache unchanged, and no playerUpdate changes the key set of
\* the cache: an update never creates an entry, so a peer that has left does
\* not reappear through a late update.
C22_UpdateNeverCreates ==
  [][last'.op = "playerUpdate" =>
       /\ DOMAIN store'.otherPlayers = DOMAIN store.otherPlayers
       /\ last'.player.id \notin DOMAIN store.otherPlayers =>
            store'.otherPlayers = store.otherPlayers]_vars

\* a late update has arrived: the client knows its id, the update's sender is
\* not in the cache
C22_Witness ==
  /\ last.op = "playerUpdate"
  /\ store.playerId # null
  /\ last.player.id \notin DOMAIN store.otherPlayers

\* --------------------------------------------------------------------- C26
\* C26: a playerUpdate for a peer that is in the cache replaces the cached copy
\* with the received state, no field of the old copy being kept; so after every
\* step each cached copy is the state carried by that step's init, playerJoined
\* or playerUpdate message for that peer, or is the copy cached before the
\* step when the step is no such message for that peer.
C26_CachedCopyIsLastReceived ==
  [][/\ last'.op = "playerUpdate" /\ last'.player.id \in DOMAIN store.otherPlayers =>
          store'.otherPlayers[last'.player.id] = last'.player
     /\ \A k \in DOMAIN store'.otherPlayers :
          CASE last'.op = "init" ->
                 \E p \in last'.data.players : p.id = k /\ store'.otherPlayers[k] = p
            [] last'.op \in {"playerJoined", "playerUpdate"} /\ last'.player.id = k ->
                 store'.otherPlayers[k] = last'.player
            [] OTHER ->
                 /\ k \in DOMAIN store.otherPlayers
                 /\ store'.otherPlayers[k] = store.otherPlayers[k]]_vars

\* an update carrying fewer fields than the cached copy has replaced it
C26_Witness ==
  /\ last.op = "playerUpdate"
  /\ last.player.id \in DOMAIN store.otherPlayers
  /\ store.otherPlayers[last.player.id] = stamp([fuel |-> 5], FirstSocketId)

\* --------------------------------------------------------------------- C23
\* the registry entry of lobby id: its name, creation timestamp and mapping
registered(reg, h, id) == h[reg[id]]

\* every lobby but `own` is registered after the step as it was before, and no
\* lobby but those in `made` appears
C23_OthersKept(own, made) ==
  /\ \A id \in DOMAIN lobbies \ {own} :
       /\ id \in DOMAIN lobbies'
       /\ registered(lobbies', heap', id) = registered(lobbies, heap, id)
  /\ DOMAIN lobbies' \subseteq DOMAIN lobbies \cup made

\* in lobby `own` the players other than sid are registered after the step as
\* they were before, under the same lobby name and timestamp, and none appears
C23_PeersKept(own, sid) ==
  LET before == registered(lobbies, heap, own).players
      others == DOMAIN before \ {sid}
  IN
  /\ others # {} => own \in DOMAIN lobbies'
  /\ own \in DOMAIN lobbies' =>
       /\ registered(lobbies', heap', own).name = registered(lobbies, heap, own).name
       /\ registered(lobbies', heap', own).createdAt =
            registered(lobbies, heap, own).createdAt
       /\ DOMAIN registered(lobbies', heap', own).players \ {sid} = others
       /\ \A p \in others :
            registered(lobbies', heap', own).players[p] = before[p]

\* C23: an updateState or a disconnect of one connection leaves the registry
\* entry of every other player and of every other lobby as it was (presence,
\* name, creation timestamp, mapping); a connect changes only the mapping of
\* the lobby it joins, which it creates when its id is unknown.
C23_HandlersTouchOnlyTheirOwn ==
  [][/\ last'.op \in {"updateState", "disconnect"} /\ last'.socket \in DOMAIN sockets =>
          /\ C23_OthersKept(heap[lobbyOf(last'.socket)].id, {})
          /\ C23_PeersKept(heap[lobbyOf(last'.socket)].id, last'.socket)
     /\ last'.op = "connection" /\ last'.socket \notin DOMAIN sockets =>
          LET target == heap'[sockets'[last'.socket].lobby].id IN
          /\ C23_OthersKept(target, {target})
          /\ target \in DOMAIN lobbies'
          /\ last'.socket \in DOMAIN registered(lobbies', heap', target).players
          /\ IF target \in DOMAIN lobbies
             THEN /\ C23_PeersKept(target, last'.socket)
                  /\ registered(lobbies, heap, target).players
                       = MapDelete(registered(lobbies', heap', target).players,
                                   last'.socket)
             ELSE DOMAIN registered(lobbies', heap', target).players
                    = {last'.socket}]_vars

\* one of two players of a lobby has disconnected while another lobby holds a
\* player too
C23_Witness ==
  /\ last.op = "disconnect"
  /\ \E s1, s2 \in DOMAIN sockets :
       /\ heap[lobbyOf(s1)].id = last.lobby
       /\ heap[lobbyOf(s2)].id # last.lobby

\* --------------------------------------------------------------------- C24
\* the non-default lobbies registered with an empty mapping
C24_Unjoined ==
  {id \in DOMAIN lobbies \ {DEFAULT_LOBBY_ID} :
     registered(lobbies, heap, id).players = EmptyMap}

\* C24: a non-default lobby made by the creation endpoint is registered with an
\* empty mapping, and a non-default lobby whose mapping is empty is still
\* registered after every step, under the same name and timestamp, with an
\* empty mapping unless the step is a connection joining it; a list result
\* shows it with playerCount 0. So a created lobby that nobody joined stays in
\* the registry and in every list result in all later states.
C24_UnjoinedLobbyStays ==
  [][/\ \A id \in C24_Unjoined :
          /\ id \in DOMAIN lobbies'
          /\ registered(lobbies', heap', id).name = registered(lobbies, heap, id).name
          /\ registered(lobbies', heap', id).createdAt
               = registered(lobbies, heap, id).createdAt
          /\ \/ registered(lobbies', heap', id).players = EmptyMap
             \/ /\ last'.op = "connection"
                /\ DOMAIN registered(lobbies', heap', id).players = {last'.socket}
          /\ last'.op = "list" =>
               [id |-> id, name |-> registered(lobbies, heap, id).name,
                createdAt |-> registered(lobbies, heap, id).createdAt,
                playerCount |-> 0] \in response'.body
     /\ last'.op = "create" /\ response'.status = 201 =>
          /\ response'.body.id \notin DOMAIN lobbies \cup {DEFAULT_LOBBY_ID}
          /\ response'.body.id \in DOMAIN lobbies'
          /\ registered(lobbies', heap', response'.body.id).players = EmptyMap]_vars

\* a connection has disconnected while a created lobby that nobody joined is
\* registered
C24_Witness ==
  /\ last.op = "disconnect"
  /\ C24_Unjoined # {}

\* --------------------------------------------------------------------- C25
\* C25: create(name) terminates for every content of the registry: whatever
\* lobbies are registered, for every request body there are values of
\* Math.random() after which the while loop of createLobby stops, having drawn
\* an id that is free.
C25_CreateTerminates ==
  \A body \in BodyNames :
    \E draws \in DrawSeqs :
      firstFree(lobbies, requestedName(lobbies, body), draws, 1) # 0

\* --------------------------------------------------------------------- C29
\* the speed the frame that has just run computed from the store's velocity
C29_Speed == currentSpeedOf(last.before.velocity)

C29_MinFlightSpeed == AIRCRAFT_PHYSICS[store.aircraftType].minFlightSpeed

\* C29 as stated: in every fixed-wing tick of every variant the lift is zero
\* when the current speed is at or below the type's minimum flight speed.
C29_NoLiftAtOrBelowMinimum ==
  last.op = "useFrame" /\ C29_Speed <= C29_MinFlightSpeed => last.lift = 0

\* C29 amended: the lift is zero when the current speed is at or below the
\* variant's lift threshold, which is the type's minimum flight speed in
\* Aircraft.tsx and 0.8 times that speed in part_003.
C29_NoLiftAtOrBelowThreshold ==
  last.op = "useFrame" =>
    /\ aircraft.version = "Aircraft" /\ C29_Speed <= C29_MinFlightSpeed =>
         last.lift = 0
    /\ aircraft.version = "part_003" /\ 10 * C29_Speed <= 8 * C29_MinFlightSpeed =>
         last.lift = 0

\* a frame of each variant has run at a speed, above zero, that is at or below
\* its threshold, and Aircraft.tsx has run one just above four fifths of the
\* minimum flight speed
C29_Witness ==
  /\ last.op = "useFrame"
  /\ C29_Speed > 0
  /\ \/ /\ aircraft.version = "Aircraft"
        /\ C29_Speed <= C29_MinFlightSpeed
        /\ 10 * C29_Speed > 8 * C29_MinFlightSpeed
     \/ /\ aircraft.version = "part_003"
        /\ 10 * C29_Speed <= 8 * C29_MinFlightSpeed

\* --------------------------------------------------------------------- C27
\* C27: in every tick in which an update is pushed, the position, rotation and
\* velocity sent in updateState are the ones the store holds when the tick
\* ends, for every aircraft type, the helicopter included.
C27_SentIsTickEndState ==
  last.op = "useFrame" =>
    \A m \in last.sent :
      /\ m.position = store.position
      /\ m.rotation = store.rotation
      /\ m.velocity = store.velocity

\* --------------------------------------------------------------------- C28
\* C28: in the variant with world wrap, after every physics tick the committed
\* position has |x| and |z| at most half the world size, whatever the velocity
\* and the time step.
C28_PositionWithinWorld ==
  aircraft.version = "part_003" /\ last.op = "useFrame" =>
    /\ store.position.x >= -HALF_WORLD /\ store.position.x <= HALF_WORLD
    /\ store.position.z >= -HALF_WORLD /\ store.position.z <= HALF_WORLD

\* --------------------------------------------------------------------- C30
\* C30: a tick that emits updateState comes more than 33 ms after the emission
\* before it, however many ticks ran in between, and a tick emits nothing
\* while the store has no socket or its socket is not connected.
C30_SendsThrottled ==
  [][last'.op = "useFrame" =>
       /\ last'.sent # {} => aircraft.quiet + last'.input.delta > 33
       /\ store.socket = NoSocket => last'.sent = {}
       /\ store.socket # NoSocket /\ ~ioSockets[store.socket].connected =>
            last'.sent = {}
       /\ Cardinality(last'.sent) <= 1]_vars

\* a frame of 16 ms has emitted: the two frames before it, 16 ms each, did not
C30_Witness ==
  /\ last.op = "useFrame"
  /\ last.sent # {}
  /\ last.input.delta = 16
  /\ aircraft.frames >= 4

====
